---- MODULE Spec2Model ----
(***************************************************************************)
(* The verify-and-retry loop of jee_math_solver (controller.solve) with    *)
(* the verifier it calls (cas_verifier): Spec is one invocation, FairSpec   *)
(* the same with its steps taken, ConcurrentSpec two invocations side by   *)
(* side, BatchSpec controller.batch_solve, VerifierSpec one call of a      *)
(* function of cas_verifier, CliSpec one run of cli.main with              *)
(* llm_client.solve_question, VerdictSpec the verifier called on its own   *)
(* or by solve.  Python values are tagged records                          *)
(* [t |-> type name, s |-> str(value)]; a dict is [t |-> "dict", d |-> a   *)
(* function from its keys].  Texts are strings, read character by          *)
(* character with SubSeq.                                                  *)
(***************************************************************************)
EXTENDS Integers, Sequences, FiniteSets, TLC

VARIABLES
    pc,           \* position of solve: "start", "loop", "respond", "done"
    problem,      \* solve's argument: the problem text
    max_rounds,   \* solve's argument
    structured,   \* solve's argument
    client,       \* TRUE once create_llm_client has been called
    messages,     \* the conversation (list of role/content dicts)
    parse_latex,  \* module state of cas_verifier: TRUE when the optional
                  \* import of sympy's LaTeX parser succeeded, FALSE for None
    round_num,    \* the loop variable of `for round_num in range(max_rounds)`
    content,      \* response.get("content", "") of the latest chat_sync call
    result,       \* what solve returned (meaningful when pc = "done")
    sent,         \* history: the conversation handed to each chat_sync call
    received,     \* history: the outcome of each chat_sync call
    calls,        \* several invocations of solve: the local variables of each
    batch,        \* batch_solve: its arguments and the list it returns
    unit,         \* one function of cas_verifier or llm_client called on its
                  \* own: its name, its arguments and what it returned
    cli           \* one run of the command line (cli.main)

vars == <<pc, problem, max_rounds, structured, client, messages, parse_latex, round_num,
          content, result, sent, received, calls, batch, unit, cli>>

-----------------------------------------------------------------------------
(* Bounds of the model *)

\* max_rounds is drawn from MinRounds..MaxRounds (the default, 3, included)
MaxRounds == 3
MinRounds == -1

-----------------------------------------------------------------------------
(* Python values *)

None == [t |-> "NoneType", s |-> "None"]
PyStr(x) == [t |-> "str", s |-> x]
PyInt(x) == [t |-> "int", s |-> x]
PyList(x) == [t |-> "list", s |-> x]
PyDict(f) == [t |-> "dict", d |-> f]
PyListOf(items) == [t |-> "list", items |-> items]
True == [t |-> "bool", s |-> "True"]
False == [t |-> "bool", s |-> "False"]
PyBool(b) == IF b THEN True ELSE False

\* bool(v) as `if v:` evaluates it
Truthy(v) ==
    CASE v.t = "NoneType" -> FALSE
      [] v.t = "str" -> v.s # ""
      [] v.t = "int" -> v.s # "0"
      [] v.t = "bool" -> v.s = "True"
      [] v.t = "list" -> v.s # "[]"
      [] v.t = "dict" -> DOMAIN v.d # {}

\* d.get(key) of a dict d
Get(dict, key) == IF key \in DOMAIN dict.d THEN dict.d[key] ELSE None

\* d[key] = value, as a new dict
SetItem(dict, key, value) ==
    PyDict([k \in (DOMAIN dict.d) \cup {key} |->
            IF k = key THEN value ELSE dict.d[k]])

-----------------------------------------------------------------------------
(* Strings *)

Char(s, i) == SubSeq(s, i, i)

StartsWith(s, p) == Len(p) <= Len(s) /\ SubSeq(s, 1, Len(p)) = p

EndsWith(s, p) == Len(p) <= Len(s) /\ SubSeq(s, Len(s) - Len(p) + 1, Len(s)) = p

\* F(v) with v evaluated once (TLC evaluates a LET definition at each use)
Bind(v, F(_)) == CHOOSE r \in {F(x) : x \in {v}} : TRUE

\* `sub in s`
Contains(s, sub) ==
    Bind(s, LAMBDA text :
    Bind(sub, LAMBDA part :
        \E i \in 1..(Len(text) - Len(part) + 1) :
            SubSeq(text, i, i + Len(part) - 1) = part))

\* the first index >= i at which sub occurs in s, 0 when there is none (s.find)
FindFrom(s, sub, i) ==
    Bind({k \in i..(Len(s) - Len(sub) + 1) : SubSeq(s, k, k + Len(sub) - 1) = sub},
         LAMBDA at : IF at = {} THEN 0 ELSE CHOOSE k \in at : \A j \in at : k <= j)

\* s[i:].replace(old, new), old not empty
RECURSIVE ReplaceFrom(_, _, _, _)
ReplaceFrom(s, old, new, i) ==
    Bind(FindFrom(s, old, i), LAMBDA k :
        IF k = 0 THEN SubSeq(s, i, Len(s))
        ELSE SubSeq(s, i, k - 1) \o new \o ReplaceFrom(s, old, new, k + Len(old)))

\* s.replace(old, new): every non-overlapping occurrence, left to right
Replace(s, old, new) == ReplaceFrom(s, old, new, 1)

\* s[i:].count(sub), sub not empty
RECURSIVE CountFrom(_, _, _)
CountFrom(s, sub, i) ==
    IF i + Len(sub) - 1 > Len(s) THEN 0
    ELSE IF SubSeq(s, i, i + Len(sub) - 1) = sub
    THEN 1 + CountFrom(s, sub, i + Len(sub))
    ELSE CountFrom(s, sub, i + 1)

\* s.count(sub), which is len(s.split(sub)) - 1
Count(s, sub) == CountFrom(s, sub, 1)

\* what str.strip() and the regex class \s take for whitespace
IsSpace(c) == c \in {" ", "\t", "\n", "\r", "\f"}

\* the index after the run of whitespace that starts at i (the greedy \s*)
RECURSIVE SkipSpaces(_, _)
SkipSpaces(s, i) ==
    IF i <= Len(s) /\ IsSpace(Char(s, i)) THEN SkipSpaces(s, i + 1) ELSE i

\* the index before the run of whitespace that ends at i
RECURSIVE SkipSpacesBack(_, _)
SkipSpacesBack(s, i) ==
    IF i >= 1 /\ IsSpace(Char(s, i)) THEN SkipSpacesBack(s, i - 1) ELSE i

LStrip(s) == SubSeq(s, SkipSpaces(s, 1), Len(s))

RStrip(s) == SubSeq(s, 1, SkipSpacesBack(s, Len(s)))

\* s.strip()
Strip(s) == SubSeq(s, SkipSpaces(s, 1), SkipSpacesBack(s, Len(s)))

UpperLetters == "ABCDEFGHIJKLMNOPQRSTUVWXYZ"
LowerLetters == "abcdefghijklmnopqrstuvwxyz"

IsUpper(c) ==
    c \in {"A", "B", "C", "D", "E", "F", "G", "H", "I", "J", "K", "L", "M",
           "N", "O", "P", "Q", "R", "S", "T", "U", "V", "W", "X", "Y", "Z"}

IsLower(c) ==
    c \in {"a", "b", "c", "d", "e", "f", "g", "h", "i", "j", "k", "l", "m",
           "n", "o", "p", "q", "r", "s", "t", "u", "v", "w", "x", "y", "z"}

LowerChar(c) ==
    IF IsUpper(c) THEN Char(LowerLetters, FindFrom(UpperLetters, c, 1)) ELSE c

RECURSIVE LowerFrom(_, _)
LowerFrom(s, i) ==
    IF i > Len(s) THEN "" ELSE LowerChar(Char(s, i)) \o LowerFrom(s, i + 1)

\* s.lower(), also the folding re.IGNORECASE applies to the ASCII letters
Lower(s) == LowerFrom(s, 1)

IsLetter(c) == IsLower(c) \/ IsUpper(c)

\* the regex class \w on the characters the model's texts are written in
IsWordChar(c) ==
    \/ IsLetter(c)
    \/ c \in {"0", "1", "2", "3", "4", "5", "6", "7", "8", "9", "_"}

\* the regex assertion \b between s[i-1] and s[i] (1-based; i in 1..Len(s)+1)
WordBoundary(s, i) ==
    (i > 1 /\ IsWordChar(Char(s, i - 1))) # (i <= Len(s) /\ IsWordChar(Char(s, i)))

\* case-insensitive match of the literal word w at index i of s
MatchWordAt(s, i, w) ==
    i + Len(w) - 1 <= Len(s) /\ Lower(SubSeq(s, i, i + Len(w) - 1)) = w

-----------------------------------------------------------------------------
(* cas_verifier.clean_expression *)

\* the index after \s*=\s* matched at index j, 0 if it does not match there
AssignTail(s, j) ==
    IF SkipSpaces(s, j) <= Len(s) /\ Char(s, SkipSpaces(s, j)) = "="
    THEN SkipSpaces(s, SkipSpaces(s, j) + 1) ELSE 0

\* the index after a match of \b(answer|is|equals?)\s*=\s* at index i, 0 if none
AssignWordEnd(s, i) ==
    IF ~WordBoundary(s, i) THEN 0
    ELSE IF MatchWordAt(s, i, "answer") THEN AssignTail(s, i + 6)
    ELSE IF MatchWordAt(s, i, "is") THEN AssignTail(s, i + 2)
    ELSE IF MatchWordAt(s, i, "equals") /\ AssignTail(s, i + 6) # 0
    THEN AssignTail(s, i + 6)
    ELSE IF MatchWordAt(s, i, "equal") THEN AssignTail(s, i + 5)
    ELSE 0

\* re.sub(r'\b(answer|is|equals?)\s*=\s*', '', s, flags=re.IGNORECASE), from i on
RECURSIVE SubAssignWords(_, _)
SubAssignWords(s, i) ==
    IF i > Len(s) THEN ""
    ELSE IF AssignWordEnd(s, i) # 0 THEN SubAssignWords(s, AssignWordEnd(s, i))
    ELSE Char(s, i) \o SubAssignWords(s, i + 1)

\* the index after a match of \b(answer|is|equals?)\b at index i, 0 if none
FillerWordEnd(s, i) ==
    IF ~WordBoundary(s, i) THEN 0
    ELSE IF MatchWordAt(s, i, "answer") /\ WordBoundary(s, i + 6) THEN i + 6
    ELSE IF MatchWordAt(s, i, "is") /\ WordBoundary(s, i + 2) THEN i + 2
    ELSE IF MatchWordAt(s, i, "equals") /\ WordBoundary(s, i + 6) THEN i + 6
    ELSE IF MatchWordAt(s, i, "equal") /\ WordBoundary(s, i + 5) THEN i + 5
    ELSE 0

\* re.sub(r'\b(answer|is|equals?)\b', '', s, flags=re.IGNORECASE), from i on
RECURSIVE SubFillerWords(_, _)
SubFillerWords(s, i) ==
    IF i > Len(s) THEN ""
    ELSE IF FillerWordEnd(s, i) # 0 THEN SubFillerWords(s, FillerWordEnd(s, i))
    ELSE Char(s, i) \o SubFillerWords(s, i + 1)

\* the index after the optional group (the\s+)? matched at the start of s
AfterThe(s) ==
    IF MatchWordAt(s, 1, "the") /\ SkipSpaces(s, 4) > 4 THEN SkipSpaces(s, 4) ELSE 1

\* the index after the optional group (answer\s+is\s+)? matched at index p
AfterAnswerIs(s, p) ==
    IF /\ MatchWordAt(s, p, "answer")
       /\ SkipSpaces(s, p + 6) > p + 6
       /\ MatchWordAt(s, SkipSpaces(s, p + 6), "is")
       /\ SkipSpaces(s, SkipSpaces(s, p + 6) + 2) > SkipSpaces(s, p + 6) + 2
    THEN SkipSpaces(s, SkipSpaces(s, p + 6) + 2)
    ELSE p

\* re.sub(r'^(the\s+)?(answer\s+is\s+)?', '', s, flags=re.IGNORECASE)
SubPrefix(s) == SubSeq(s, AfterAnswerIs(s, AfterThe(s)), Len(s))

\* var_patterns matched without re.IGNORECASE
LooksLikeAssignmentCaseSensitive(left) ==
    \/ Len(RStrip(left)) = 1 /\ IsLetter(RStrip(left))
    \/ RStrip(left) \in {"answer", "solution", "result"}

\* any(re.match(pattern, left, re.IGNORECASE) for pattern in var_patterns)
\* (a final newline, which $ would let pass, cannot occur: left is stripped)
LooksLikeAssignment(left) ==
    \/ Len(RStrip(left)) = 1 /\ IsLetter(RStrip(left))
    \/ Lower(RStrip(left)) \in {"answer", "solution", "result"}

\* unicode_replacements, in the dict's order; the rows for the characters
\* U+2070, U+2074..U+2079, U+221A and U+221E are left out: the texts of the
\* model are written without them, and replacing an absent character is a no-op
unicode_replacements ==
    << <<"²", "**2">>, <<"³", "**3">>, <<"¹", "**1">>, <<"°", "*pi/180">>,
       <<"π", "pi">>, <<"ln", "log">>, <<"×", "*">>, <<"·", "*">>, <<"÷", "/">> >>

\* the loop `for old, new in unicode_replacements.items()`, from row k on
RECURSIVE ReplaceAll(_, _)
ReplaceAll(s, k) ==
    IF k > Len(unicode_replacements) THEN s
    ELSE Bind(Replace(s, unicode_replacements[k][1], unicode_replacements[k][2]),
              LAMBDA r : ReplaceAll(r, k + 1))

\* lines 59-88: the text kept from an input with or without "="
KeepSide(expr, original_expr) ==
    LET eq == FindFrom(original_expr, "=", 1)
        two == Count(original_expr, "=") = 1
        left == Strip(SubSeq(original_expr, 1, eq - 1))
        right == Strip(SubSeq(original_expr, eq + 1, Len(original_expr)))
    IN  IF /\ eq # 0
           /\ \/ Contains(original_expr, "f'")
              \/ Contains(original_expr, "d/dx")
              \/ Contains(Lower(original_expr), "derivative")
        THEN IF two THEN right ELSE expr
        ELSE IF eq # 0
        THEN IF two
             THEN IF LooksLikeAssignment(left) THEN right ELSE original_expr
             ELSE SubAssignWords(expr, 1)
        ELSE expr

\* lines 116-117
DropFillerWords(s) == IF ~Contains(s, "=") THEN SubFillerWords(s, 1) ELSE s

clean_expression(expr) ==
    Bind(Strip(expr), LAMBDA original_expr :
    Bind(KeepSide(expr, original_expr), LAMBDA e1 :
    Bind(ReplaceAll(e1, 1), LAMBDA e2 :
    Bind(DropFillerWords(e2), LAMBDA e3 :
    Bind(Strip(e3), LAMBDA e4 : SubPrefix(e4))))))

-----
(* The symbolic engine (sympy), an external collaborator: its outcomes on    *)
(* the texts this model hands to it.  An expression is the record of what    *)
(* the code reads from it: str(e), e.is_number, e.is_real.                   *)

\* how a block of code ends: with a value, by going on, or with an exception
Return(value) == [kind |-> "return", value |-> value]
Continue(message) == [kind |-> "continue", value |-> message]
Throw(e) == [kind |-> "raise", value |-> e]

Ok(v) == [ok |-> TRUE, value |-> v]
Raise(msg) == [ok |-> FALSE, exc |-> msg]

Expr(text, num, real) == [str |-> text, is_number |-> num, is_real |-> real]

SympifyError(text, why) ==
    Raise("Sympify of expression 'could not parse '" \o text
          \o "'' failed, because of exception being raised:\n" \o why)

\* sp.sympify(expr, locals=LOCALS)
sympify(text) ==
    CASE text = "1/2" -> Ok(Expr("1/2", True, True))
      [] text = "8" -> Ok(Expr("8", True, True))
      [] text = "0" -> Ok(Expr("0", True, True))
      [] text = "F(x)-F(x+8)" -> Ok(Expr("F(x) - F(x + 8)", False, None))
      [] text = "1" -> Ok(Expr("1", True, True))
      [] text = "2" -> Ok(Expr("2", True, True))
      [] text = "5" -> Ok(Expr("5", True, True))
      [] text = "x" -> Ok(Expr("x", False, None))
      [] text = "x+1" -> Ok(Expr("x + 1", False, None))
      [] text = "x+2" -> Ok(Expr("x + 2", False, None))
      [] text = "2+x" -> Ok(Expr("x + 2", False, None))
      [] text = "sin(x)**2+cos(x)**2" -> Ok(Expr("sin(x)**2 + cos(x)**2", False, None))
      [] text = "Symbol('^{')" -> Ok(Expr("^{", False, None))
      [] text = "\\frac{1}{2}" ->
            SympifyError(text, "SyntaxError: unexpected character after line continuation character (<string>, line 1)")
      [] OTHER -> SympifyError(text, "SyntaxError: invalid syntax (<string>, line 1)")

\* sympy.parsing.latex.parse_latex(expr)
latex_parse(text) ==
    CASE text = "\\frac{1}{2}" -> Ok(Expr("1/2", True, True))
      [] OTHER -> Raise("I don't understand this")

\* what a call of parse_latex can do with a text: the outcome of the table, or
\* the ImportError that sympy raises on every call when the antlr4 package is
\* not installed (the import of line 22 succeeds without it)
MarkupOutcomes(text) ==
    { latex_parse(text),
      Raise("LaTeX parsing requires the antlr4 Python package, provided by pip (antlr4-python3-runtime) or conda (antlr-python-runtime), version 4.11") }

\* str(n) of a natural number
RECURSIVE IntToStr(_)
IntToStr(n) ==
    IF n < 10 THEN Char("0123456789", n + 1)
    ELSE IntToStr(n \div 10) \o Char("0123456789", (n % 10) + 1)

\* sp.simplify(e): the Pythagorean identity is reduced, the other
\* expressions of the tables above are in simplest form
simplify(e) ==
    CASE e.str = "sin(x)**2 + cos(x)**2" -> Expr("1", True, True)
      [] e.str = "sin(x)**2 + cos(x)**2 - 1" -> Expr("0", True, True)
      [] OTHER -> e

\* the expressions a*x + h/2 of the tables above, as <<a, h>>
IsLinear(e) == e.str \in {"0", "1", "2", "5", "8", "1/2", "x", "x + 1", "x + 2"}

Linear(e) ==
    CASE e.str = "0" -> <<0, 0>>
      [] e.str = "1" -> <<0, 2>>
      [] e.str = "2" -> <<0, 4>>
      [] e.str = "5" -> <<0, 10>>
      [] e.str = "8" -> <<0, 16>>
      [] e.str = "1/2" -> <<0, 1>>
      [] e.str = "x" -> <<1, 0>>
      [] e.str = "x + 1" -> <<1, 2>>
      [] e.str = "x + 2" -> <<1, 4>>

\* str() of the rational h/2, h > 0
Halves(h) == IF h % 2 = 0 THEN IntToStr(h \div 2) ELSE IntToStr(h) \o "/2"

\* the engine's expression a*x + h/2 (a in -1..1) with its str()
LinearExpr(a, h) ==
    CASE a = 0 /\ h >= 0 -> Expr(Halves(h), True, True)
      [] a = 0 /\ h < 0 -> Expr("-" \o Halves(-h), True, True)
      [] a = 1 /\ h = 0 -> Expr("x", False, None)
      [] a = 1 /\ h > 0 -> Expr("x + " \o Halves(h), False, None)
      [] a = 1 /\ h < 0 -> Expr("x - " \o Halves(-h), False, None)
      [] a = -1 /\ h = 0 -> Expr("-x", False, None)
      [] a = -1 /\ h > 0 -> Expr(Halves(h) \o " - x", False, None)
      [] a = -1 /\ h < 0 -> Expr("-x - " \o Halves(-h), False, None)

\* l - r on expressions of the tables above
Minus(l, r) ==
    CASE IsLinear(l) /\ IsLinear(r) ->
            LinearExpr(Linear(l)[1] - Linear(r)[1], Linear(l)[2] - Linear(r)[2])
      [] r.str = "0" -> l
      [] l.str = r.str -> Expr("0", True, True)
      [] l.str = "sin(x)**2 + cos(x)**2" /\ r.str = "1" ->
            Expr("sin(x)**2 + cos(x)**2 - 1", False, None)
      [] OTHER -> Expr(l.str \o " - (" \o r.str \o ")", PyBool(l.is_number = True /\ r.is_number = True), None)

-----------------------------------------------------------------------------
(* cas_verifier *)

_looks_like_latex(text) ==
    LET s == Strip(text)
    IN  IF s = "" THEN FALSE
        ELSE \/ \E m \in {"\\frac", "\\sqrt", "\\left", "\\right", "^{", "_{",
                          "\\sin", "\\cos"} : Contains(s, m)
             \/ StartsWith(s, "$") /\ EndsWith(s, "$")

\* lines 43-44: the math-mode delimiters come off
StripDollars(stripped) ==
    IF StartsWith(stripped, "$") /\ EndsWith(stripped, "$")
    THEN SubSeq(stripped, 2, Len(stripped) - 1)
    ELSE stripped

\* latex stands for the module's parse_latex being available (not None)
_parse(text, latex) ==
    Bind(Strip(text), LAMBDA stripped :
        IF stripped = "" THEN Raise("empty expression")
        ELSE Bind(StripDollars(stripped), LAMBDA expr :
            IF latex /\ _looks_like_latex(expr) /\ latex_parse(expr).ok
            THEN latex_parse(expr)
            ELSE sympify(expr)))

\* the except branch of verify_equality
EqualityError(msg) ==
    PyDict([ok |-> PyStr("False"), diff_simplified |-> None, error |-> PyStr(msg)])

\* verify_equality with the right-hand side parsed outside the try block
verify_equality_unguarded_rhs(lhs, rhs, latex) ==
    Bind(_parse(lhs, latex), LAMBDA l :
        IF ~l.ok THEN EqualityError(l.exc)
        ELSE Bind(_parse(rhs, latex), LAMBDA r :
            IF ~r.ok THEN Throw(r.exc)
            ELSE Bind(simplify(Minus(l.value, r.value)), LAMBDA diff :
                PyDict([ok |-> PyStr(PyBool(diff.str = "0").s),
                        diff_simplified |-> PyStr(diff.str),
                        error |-> None]))))

\* verify_equality comparing the difference before it is simplified
verify_equality_unsimplified(lhs, rhs, latex) ==
    Bind(_parse(lhs, latex), LAMBDA l :
        IF ~l.ok THEN EqualityError(l.exc)
        ELSE Bind(_parse(rhs, latex), LAMBDA r :
            IF ~r.ok THEN EqualityError(r.exc)
            ELSE Bind(Minus(l.value, r.value), LAMBDA diff :
                PyDict([ok |-> PyStr(PyBool(diff.str = "0").s),
                        diff_simplified |-> PyStr(diff.str),
                        error |-> None]))))

verify_equality(lhs, rhs, latex) ==
    Bind(_parse(lhs, latex), LAMBDA l :
        IF ~l.ok THEN EqualityError(l.exc)
        ELSE Bind(_parse(rhs, latex), LAMBDA r :
            IF ~r.ok THEN EqualityError(r.exc)
            ELSE Bind(simplify(Minus(l.value, r.value)), LAMBDA diff :
                PyDict([ok |-> PyStr(PyBool(diff.str = "0").s),
                        diff_simplified |-> PyStr(diff.str),
                        error |-> None]))))

\* the except branch of verify_mathematical_answer
InvalidVerdict(msg) ==
    PyDict([is_valid |-> False, simplified_answer |-> None,
            verification_details |-> None,
            error |-> PyStr("SymPy parsing error: " \o msg)])

\* expression is a Python value: the str methods of clean_expression raise
\* AttributeError on anything that is not a str
\* lines 188-207: the verdict on an expression that parsed
ValidVerdict(expression, cleaned_expr, parsed, simplified) ==
    PyDict([is_valid |-> True,
            simplified_answer |-> PyStr(simplified.str),
            verification_details |->
                PyDict([original |-> expression,
                        cleaned |-> PyStr(cleaned_expr),
                        parsed |-> PyStr(parsed.str),
                        simplified |-> PyStr(simplified.str),
                        is_numeric |-> parsed.is_number,
                        is_real |-> parsed.is_real,
                        complexity |-> PyInt(IntToStr(Len(simplified.str)))]),
            error |-> None])

\* verify_mathematical_answer with the parse outside the try block
verify_mathematical_answer_unguarded(expression, context, latex) ==
    IF expression.t # "str"
    THEN InvalidVerdict("'" \o expression.t \o "' object has no attribute 'strip'")
    ELSE Bind(clean_expression(expression.s), LAMBDA cleaned_expr :
         Bind(_parse(cleaned_expr, latex), LAMBDA parsed :
            IF ~parsed.ok THEN Throw(parsed.exc)
            ELSE ValidVerdict(expression, cleaned_expr, parsed.value,
                              simplify(parsed.value))))

\* verify_mathematical_answer catching the engine's errors only
verify_mathematical_answer_catching_parse_errors(expression, context, latex) ==
    IF expression.t # "str"
    THEN Throw("'" \o expression.t \o "' object has no attribute 'strip'")
    ELSE Bind(clean_expression(expression.s), LAMBDA cleaned_expr :
         Bind(_parse(cleaned_expr, latex), LAMBDA parsed :
            IF ~parsed.ok THEN InvalidVerdict(parsed.exc)
            ELSE ValidVerdict(expression, cleaned_expr, parsed.value,
                              simplify(parsed.value))))

\* verify_mathematical_answer keeping the context among the details
verify_mathematical_answer_recording_context(expression, context, latex) ==
    IF expression.t # "str"
    THEN InvalidVerdict("'" \o expression.t \o "' object has no attribute 'strip'")
    ELSE Bind(clean_expression(expression.s), LAMBDA cleaned_expr :
         Bind(_parse(cleaned_expr, latex), LAMBDA parsed :
            IF ~parsed.ok THEN InvalidVerdict(parsed.exc)
            ELSE SetItem(ValidVerdict(expression, cleaned_expr, parsed.value,
                                      simplify(parsed.value)),
                         "context", PyStr(context))))

verify_mathematical_answer(expression, context, latex) ==
    IF expression.t # "str"
    THEN InvalidVerdict("'" \o expression.t \o "' object has no attribute 'strip'")
    ELSE Bind(clean_expression(expression.s), LAMBDA cleaned_expr :
         Bind(_parse(cleaned_expr, latex), LAMBDA parsed :
            IF ~parsed.ok THEN InvalidVerdict(parsed.exc)
            ELSE ValidVerdict(expression, cleaned_expr, parsed.value,
                              simplify(parsed.value))))

-----------------------------------------------------------------------------
(* The inputs of solve and the behaviours of the model transport *)

Problems ==
    { "What is 1/4 + 1/4?",
      "If F(x) + F(x+T) = F(x+2) + F(x+T+6) for all x, find T",
      "Find T: F(x)+F(x+T)=F(x+2)+F(x+T+6)" }

\* what chat_sync may return as the content of the model's response
ResponseTexts ==
    { "{\"final_answer\": \"1/2\", \"approach\": \"add the quarters\"}",
      "{\"final_answer\": \"2 +\", \"approach\": \"guess\"}",
      "{\"final_answer\": \"\\\\frac{1}{2}\"}",
      "{\"final_answer\": \"8\"}",
      "{\"final_answer\": \"\", \"approach\": \"unsure\"}",
      "{\"final_answer\": 0}",
      "{\"final_answer\": 5}",
      "{\"final_answer\": null, \"approach\": \"no closed form\"}",
      "{\"approach\": \"explanation only\"}",
      "[1, 2]",
      "7",
      "The answer is 1/2",
      "Sure! {\"final_answer\": \"1/2\"} Hope it helps",
      "" }

\* the messages of the exceptions chat_sync may raise
TransportErrors == { "429 Resource has been exhausted", "API key not valid" }

\* json.loads(content) on ResponseTexts
json_loads(text) ==
    CASE text = "{\"final_answer\": \"1/2\", \"approach\": \"add the quarters\"}" ->
            Ok(PyDict([final_answer |-> PyStr("1/2"),
                       approach |-> PyStr("add the quarters")]))
      [] text = "{\"final_answer\": \"2 +\", \"approach\": \"guess\"}" ->
            Ok(PyDict([final_answer |-> PyStr("2 +"), approach |-> PyStr("guess")]))
      [] text = "{\"final_answer\": \"\\\\frac{1}{2}\"}" ->
            Ok(PyDict([final_answer |-> PyStr("\\frac{1}{2}")]))
      [] text = "{\"final_answer\": \"\", \"approach\": \"unsure\"}" ->
            Ok(PyDict([final_answer |-> PyStr(""), approach |-> PyStr("unsure")]))
      [] text = "{\"final_answer\": 0}" ->
            Ok(PyDict([final_answer |-> PyInt("0")]))
      [] text = "{\"final_answer\": 5}" ->
            Ok(PyDict([final_answer |-> PyInt("5")]))
      [] text = "{\"final_answer\": null, \"approach\": \"no closed form\"}" ->
            Ok(PyDict([final_answer |-> None,
                       approach |-> PyStr("no closed form")]))
      [] text = "{\"approach\": \"explanation only\"}" ->
            Ok(PyDict([approach |-> PyStr("explanation only")]))
      [] text = "[1, 2]" -> Ok(PyListOf(<<PyInt("1"), PyInt("2")>>))
      [] text = "7" -> Ok(PyInt("7"))
      [] text = "{\"final_answer\": \"1/2\"}" ->
            Ok(PyDict([final_answer |-> PyStr("1/2")]))
      [] text = "{\"final_answer\": \"8\"}" ->
            Ok(PyDict([final_answer |-> PyStr("8")]))
      [] text = "{\"error\": \"no closed form\"}" ->
            Ok(PyDict([error |-> PyStr("no closed form")]))
      [] text = "[\"error\"]" -> Ok(PyListOf(<<PyStr("error")>>))
      [] text = "\"error\"" -> Ok(PyStr("error"))
      [] text = "null" -> Ok(None)
      [] OTHER -> Raise("JSONDecodeError")

-----------------------------------------------------------------------------
(* prompts *)

\* the two system prompts, by name: their wording is not modelled
get_system_prompt(flag) ==
    IF flag THEN "<SYSTEM_PROMPT_STRUCTURED>" ELSE "<SYSTEM_PROMPT>"

format_user_prompt(p) == "Problem: " \o p \o "\nAnswer in the JSON schema above."

-----------------------------------------------------------------------------
(* controller.solve *)

\* the test of `for round_num in range(max_rounds)`
InRange(r, m) == r < m

\* mutant of IsLastRound: the last round is taken to be round max_rounds
IsLastRoundOffByOne(r, m) == r = m

\* round_num == max_rounds - 1
IsLastRound(r, m) == r = m - 1

\* mutant of IsHardcodedExample: the pattern is looked for in the text as given
IsHardcodedExampleKeepingSpaces(p) ==
    Contains(p, "F(x)+F(x+T)=F(x+2)+F(x+T+6)")

IsHardcodedExample(p) ==
    Contains(Replace(p, " ", ""), "F(x)+F(x+T)=F(x+2)+F(x+T+6)")

hardcoded_example(p, latex) ==
    LET verifications == <<verify_equality("F(x)-F(x+8)", "0", latex)>>
    IN  PyDict([problem |-> PyStr(p),
                steps_verified |->
                    PyBool(\A i \in 1..Len(verifications) :
                              Get(verifications[i], "ok") = PyStr("True")),
                final_answer |-> PyStr("8"),
                verifications |-> PyListOf(verifications),
                method |-> PyStr("hardcoded_example")])

\* mutant of correction_prompt: the verifier's error is not passed on
correction_prompt_without_error(final_answer, error_msg) ==
    "\nYour previous answer \"" \o final_answer.s
    \o "\" could not be verified mathematically.\n\nPlease recalculate and provide a corrected solution in the same JSON format.\nFocus on mathematical accuracy and use standard notation.\n"

correction_prompt(final_answer, error_msg) ==
    "\nYour previous answer \"" \o final_answer.s
    \o "\" could not be verified mathematically.\nError: " \o error_msg.s
    \o "\n\nPlease recalculate and provide a corrected solution in the same JSON format.\nFocus on mathematical accuracy and use standard notation.\n"

json_fix_prompt ==
    "\nYour previous response was not valid JSON. Please provide your answer \nin the exact JSON format requested, with no additional text.\n"

\* mutant of llm_parse_error: raw_response is filled from the wrong variable
llm_parse_error_wrong_raw(p, text) ==
    PyDict([problem |-> PyStr(p),
            error |-> PyStr("Failed to parse JSON response"),
            raw_response |-> PyStr(p),
            method |-> PyStr("llm_parse_error")])

llm_parse_error(p, text) ==
    PyDict([problem |-> PyStr(p),
            error |-> PyStr("Failed to parse JSON response"),
            raw_response |-> PyStr(text),
            method |-> PyStr("llm_parse_error")])

llm_max_rounds_exceeded(p) ==
    PyDict([problem |-> PyStr(p),
            error |-> PyStr("Maximum correction rounds exceeded"),
            method |-> PyStr("llm_max_rounds_exceeded")])

\* the handler `except Exception as e` around the whole loop
error_fallback(p, e) ==
    PyDict([problem |-> PyStr(p),
            error |-> PyStr("LLM error: " \o e),
            final_answer |-> None,
            note |-> PyStr("LLM integration failed"),
            method |-> PyStr("error_fallback")])

\* the accept test: `verification["is_valid"] or round_num == max_rounds - 1`
Accepts(verification, r, m) ==
    Truthy(verification.d.is_valid) \/ IsLastRound(r, m)

\* lines 64-82 with the loop variable itself as verification_round
VerifiedRoundCountingFromZero(p, parsed_response, final_answer, r, m, latex) ==
    Bind(verify_mathematical_answer(final_answer, p, latex), LAMBDA verification :
        IF Accepts(verification, r, m)
        THEN Return(SetItem(SetItem(SetItem(parsed_response,
                        "verification", verification),
                        "verification_round", PyInt(IntToStr(r))),
                        "method", PyStr("llm_with_verification")))
        ELSE Continue([role |-> "user",
                       content |-> correction_prompt(final_answer,
                                        Get(verification, "error"))]))

\* lines 64-82: the answer is verified, then accepted or sent back
VerifiedRound(p, parsed_response, final_answer, r, m, latex) ==
    Bind(verify_mathematical_answer(final_answer, p, latex), LAMBDA verification :
        IF Accepts(verification, r, m)
        THEN Return(SetItem(SetItem(SetItem(parsed_response,
                        "verification", verification),
                        "verification_round", PyInt(IntToStr(r + 1))),
                        "method", PyStr("llm_with_verification")))
        ELSE Continue([role |-> "user",
                       content |-> correction_prompt(final_answer,
                                        Get(verification, "error"))]))

\* mutant of VerifyRound: a candidate without an answer is sent back for repair
VerifyRoundRetryingNoAnswer(p, parsed_response, r, m, latex) ==
    IF parsed_response.t # "dict"
    THEN Throw("'" \o parsed_response.t \o "' object has no attribute 'get'")
    ELSE IF Truthy(Get(parsed_response, "final_answer"))
    THEN VerifiedRound(p, parsed_response, Get(parsed_response, "final_answer"),
                       r, m, latex)
    ELSE IF IsLastRound(r, m)
    THEN Return(SetItem(parsed_response, "method", PyStr("llm_no_verification")))
    ELSE Continue([role |-> "user", content |-> json_fix_prompt])

\* lines 62-86: the branch taken when json.loads returned parsed_response
VerifyRound(p, parsed_response, r, m, latex) ==
    IF parsed_response.t # "dict"
    THEN Throw("'" \o parsed_response.t \o "' object has no attribute 'get'")
    ELSE IF Truthy(Get(parsed_response, "final_answer"))
    THEN VerifiedRound(p, parsed_response, Get(parsed_response, "final_answer"),
                       r, m, latex)
    ELSE Return(SetItem(parsed_response, "method", PyStr("llm_no_verification")))

\* mutant of DecodeErrorRound: a malformed response ends the invocation at once
DecodeErrorAlwaysFatal(p, text, r, m) == Return(llm_parse_error(p, text))

\* the handler `except json.JSONDecodeError`
DecodeErrorRound(p, text, r, m) ==
    IF IsLastRound(r, m)
    THEN Return(llm_parse_error(p, text))
    ELSE Continue([role |-> "user", content |-> json_fix_prompt])

\* the body of one round of the loop, after chat_sync returned `text`
RoundBody(p, text, r, m, latex) ==
    IF json_loads(text).ok
    THEN VerifyRound(p, json_loads(text).value, r, m, latex)
    ELSE DecodeErrorRound(p, text, r, m)

-----------------------------------------------------------------------------
(* The state machine of one solve invocation *)

NoResult == PyDict([method |-> PyStr("<running>")])

Init ==
    /\ pc = "start"
    /\ problem \in Problems
    /\ max_rounds \in MinRounds..MaxRounds
    /\ structured \in BOOLEAN
    /\ parse_latex \in BOOLEAN
    /\ client = FALSE
    /\ messages = <<>>
    /\ round_num = 0
    /\ content = ""
    /\ result = NoResult
    /\ sent = <<>>
    /\ received = <<>>
    /\ calls = <<>>
    /\ batch = <<>>
    /\ unit = <<>>
    /\ cli = <<>>

\* lines 31-39: the regression fixture, answered without the model
HardcodedExample ==
    /\ pc = "start"
    /\ IsHardcodedExample(problem)
    /\ result' = hardcoded_example(problem, parse_latex)
    /\ pc' = "done"
    /\ UNCHANGED <<problem, max_rounds, structured, client, messages,
                   parse_latex, round_num, content, sent, received>>
    /\ UNCHANGED <<calls, batch, unit, cli>>

\* lines 43-50: the client and the initial conversation
BuildConversation ==
    /\ pc = "start"
    /\ ~IsHardcodedExample(problem)
    /\ client' = TRUE
    /\ messages' = << [role |-> "system", content |-> get_system_prompt(structured)],
                      [role |-> "user", content |-> format_user_prompt(problem)] >>
    /\ round_num' = 0
    /\ pc' = "loop"
    /\ UNCHANGED <<problem, max_rounds, structured, parse_latex, content,
                   result, sent, received>>
    /\ UNCHANGED <<calls, batch, unit, cli>>

\* lines 54-55: chat_sync returns a response
ChatSyncReturns ==
    /\ pc = "loop"
    /\ InRange(round_num, max_rounds)
    /\ \E text \in ResponseTexts :
        /\ content' = text
        /\ received' = Append(received, [raised |-> FALSE, text |-> text])
    /\ sent' = Append(sent, messages)
    /\ pc' = "respond"
    /\ UNCHANGED <<problem, max_rounds, structured, client, messages,
                   parse_latex, round_num, result>>
    /\ UNCHANGED <<calls, batch, unit, cli>>

\* mutant of ChatSyncRaises: the transport failure is swallowed and the round retried
ChatSyncRaisesRetried ==
    /\ pc = "loop"
    /\ InRange(round_num, max_rounds)
    /\ \E e \in TransportErrors :
        received' = Append(received, [raised |-> TRUE, text |-> e])
    /\ sent' = Append(sent, messages)
    /\ round_num' = round_num + 1
    /\ UNCHANGED <<pc, problem, max_rounds, structured, client, messages,
                   parse_latex, content, result>>
    /\ UNCHANGED <<calls, batch, unit, cli>>

\* line 54 raising, caught at line 112
ChatSyncRaises ==
    /\ pc = "loop"
    /\ InRange(round_num, max_rounds)
    /\ \E e \in TransportErrors :
        /\ received' = Append(received, [raised |-> TRUE, text |-> e])
        /\ result' = error_fallback(problem, e)
    /\ sent' = Append(sent, messages)
    /\ pc' = "done"
    /\ UNCHANGED <<problem, max_rounds, structured, client, messages,
                   parse_latex, round_num, content>>
    /\ UNCHANGED <<calls, batch, unit, cli>>

\* mutant of HandleResponse: a rejected round does not use up the budget
HandleResponseKeepingRound ==
    /\ pc = "respond"
    /\ \E out \in {RoundBody(problem, content, round_num, max_rounds, parse_latex)} :
           \/ /\ out.kind = "return"
              /\ result' = out.value
              /\ pc' = "done"
              /\ UNCHANGED messages
           \/ /\ out.kind = "continue"
              /\ messages' = Append(messages, out.value)
              /\ pc' = "loop"
              /\ UNCHANGED result
           \/ /\ out.kind = "raise"
              /\ result' = error_fallback(problem, out.value)
              /\ pc' = "done"
              /\ UNCHANGED messages
    /\ UNCHANGED <<problem, max_rounds, structured, client, parse_latex,
                   round_num, content, sent, received>>
    /\ UNCHANGED <<calls, batch, unit, cli>>

\* mutant of HandleResponse: only json.JSONDecodeError is handled, any other
\* exception of the round leaves solve (no step models a fault that escapes)
HandleResponseUncaught ==
    /\ pc = "respond"
    /\ \E out \in {RoundBody(problem, content, round_num, max_rounds, parse_latex)} :
           \/ /\ out.kind = "return"
              /\ result' = out.value
              /\ pc' = "done"
              /\ UNCHANGED <<messages, round_num>>
           \/ /\ out.kind = "continue"
              /\ messages' = Append(messages, out.value)
              /\ round_num' = round_num + 1
              /\ pc' = "loop"
              /\ UNCHANGED result
           \/ /\ out.kind = "raise"
              /\ FALSE
              /\ UNCHANGED <<pc, result, messages, round_num>>
    /\ UNCHANGED <<problem, max_rounds, structured, client, parse_latex,
                   content, sent, received>>
    /\ UNCHANGED <<calls, batch, unit, cli>>

\* mutant of HandleResponse: a result is stored but the loop goes on
HandleResponseFallingThrough ==
    /\ pc = "respond"
    /\ \E out \in {RoundBody(problem, content, round_num, max_rounds, parse_latex)} :
           \/ /\ out.kind = "return"
              /\ result' = out.value
              /\ round_num' = round_num + 1
              /\ pc' = "loop"
              /\ UNCHANGED messages
           \/ /\ out.kind = "continue"
              /\ messages' = Append(messages, out.value)
              /\ round_num' = round_num + 1
              /\ pc' = "loop"
              /\ UNCHANGED result
           \/ /\ out.kind = "raise"
              /\ result' = error_fallback(problem, out.value)
              /\ pc' = "done"
              /\ UNCHANGED <<messages, round_num>>
    /\ UNCHANGED <<problem, max_rounds, structured, client, parse_latex,
                   content, sent, received>>
    /\ UNCHANGED <<calls, batch, unit, cli>>

\* mutant of HandleResponse: the correction replaces the turns after the
\* system message
HandleResponseRestartingConversation ==
    /\ pc = "respond"
    /\ \E out \in {RoundBody(problem, content, round_num, max_rounds, parse_latex)} :
           \/ /\ out.kind = "return"
              /\ result' = out.value
              /\ pc' = "done"
              /\ UNCHANGED <<messages, round_num>>
           \/ /\ out.kind = "continue"
              /\ messages' = <<messages[1], out.value>>
              /\ round_num' = round_num + 1
              /\ pc' = "loop"
              /\ UNCHANGED result
           \/ /\ out.kind = "raise"
              /\ result' = error_fallback(problem, out.value)
              /\ pc' = "done"
              /\ UNCHANGED <<messages, round_num>>
    /\ UNCHANGED <<problem, max_rounds, structured, client, parse_latex,
                   content, sent, received>>
    /\ UNCHANGED <<calls, batch, unit, cli>>

\* lines 57-103 with the model's response kept in the conversation, as an
\* assistant message before the correction
HandleResponseAppendingResponse ==
    /\ pc = "respond"
    /\ \E out \in {RoundBody(problem, content, round_num, max_rounds, parse_latex)} :
           \/ /\ out.kind = "return"
              /\ result' = out.value
              /\ pc' = "done"
              /\ UNCHANGED <<messages, round_num>>
           \/ /\ out.kind = "continue"
              /\ messages' = Append(Append(messages,
                                [role |-> "assistant", content |-> content]),
                                out.value)
              /\ round_num' = round_num + 1
              /\ pc' = "loop"
              /\ UNCHANGED result
           \/ /\ out.kind = "raise"
              /\ result' = error_fallback(problem, out.value)
              /\ pc' = "done"
              /\ UNCHANGED <<messages, round_num>>
    /\ UNCHANGED <<problem, max_rounds, structured, client, parse_latex,
                   content, sent, received>>
    /\ UNCHANGED <<calls, batch, unit, cli>>

\* lines 57-103: the rest of the round
HandleResponse ==
    /\ pc = "respond"
    /\ \E out \in {RoundBody(problem, content, round_num, max_rounds, parse_latex)} :
           \/ /\ out.kind = "return"
              /\ result' = out.value
              /\ pc' = "done"
              /\ UNCHANGED <<messages, round_num>>
           \/ /\ out.kind = "continue"
              /\ messages' = Append(messages, out.value)
              /\ round_num' = round_num + 1
              /\ pc' = "loop"
              /\ UNCHANGED result
           \/ /\ out.kind = "raise"
              /\ result' = error_fallback(problem, out.value)
              /\ pc' = "done"
              /\ UNCHANGED <<messages, round_num>>
    /\ UNCHANGED <<problem, max_rounds, structured, client, parse_latex,
                   content, sent, received>>
    /\ UNCHANGED <<calls, batch, unit, cli>>

\* lines 105-110: the loop ran out
MaxRoundsExceeded ==
    /\ pc = "loop"
    /\ ~InRange(round_num, max_rounds)
    /\ result' = llm_max_rounds_exceeded(problem)
    /\ pc' = "done"
    /\ UNCHANGED <<problem, max_rounds, structured, client, messages,
                   parse_latex, round_num, content, sent, received>>
    /\ UNCHANGED <<calls, batch, unit, cli>>

Next ==
    \/ HardcodedExample
    \/ BuildConversation
    \/ ChatSyncReturns
    \/ ChatSyncRaises
    \/ HandleResponse
    \/ MaxRoundsExceeded

Spec == Init /\ [][Next]_vars

\* solve is sequential code: while it has a step to take (chat_sync returning
\* or failing included), it takes one
FairSpec == Spec /\ WF_vars(Next)

-----------------------------------------------------------------------------
(* Reading the histories: round i is the i-th chat_sync call (round_num = i-1) *)

Rounds == 1..Len(received)

\* the body of round i has run (a raised call has no body: solve is done)
Handled(i) == i < Len(received) \/ pc # "respond"

\* solve returned in round i
ReturnedIn(i) == i = Len(received) /\ pc = "done"

IsFinalRound(i) == i = max_rounds

\* the conversation as round i left it
AfterRound(i) == IF i < Len(sent) THEN sent[i + 1] ELSE messages

Unparseable(i) == ~received[i].raised /\ ~json_loads(received[i].text).ok

\* the response of round i is a JSON object
IsCandidate(i) ==
    /\ ~received[i].raised
    /\ json_loads(received[i].text).ok
    /\ json_loads(received[i].text).value.t = "dict"

Candidate(i) == json_loads(received[i].text).value

HasAnswerField(i) == IsCandidate(i) /\ "final_answer" \in DOMAIN Candidate(i).d

Answer(i) == Candidate(i).d.final_answer

\* the answer of round i is one the code hands to the verifier (line 63)
RanVerification(i) == HasAnswerField(i) /\ Truthy(Answer(i))

Verdict(i) == verify_mathematical_answer(Answer(i), problem, parse_latex)

Valid(i) == Truthy(Verdict(i).d.is_valid)

\* result is the candidate of round i with that round's verdict attached
AcceptedIn(i) ==
    /\ ReturnedIn(i)
    /\ "verification" \in DOMAIN result.d
    /\ result.d.verification = Verdict(i)
    /\ \A k \in DOMAIN Candidate(i).d : result.d[k] = Candidate(i).d[k]

\* round i appended exactly one message, of role user, to the conversation
AppendedOneUserMessage(i) ==
    /\ Len(AfterRound(i)) = Len(sent[i]) + 1
    /\ SubSeq(AfterRound(i), 1, Len(sent[i])) = sent[i]
    /\ AfterRound(i)[Len(AfterRound(i))].role = "user"

Appended(i) == AfterRound(i)[Len(AfterRound(i))].content

\* after round i the next chat_sync call is made, or is the step solve is at
NextCallFollows(i) ==
    i = Len(received) => pc = "loop" /\ InRange(round_num, max_rounds)

-----------------------------------------------------------------------------
(* The claims *)

\* C1: for max_rounds >= 1, one solve invocation calls the model transport at
\* most max_rounds times, rounds rejected for malformed output and rounds
\* rejected by verification counting against the same budget.
C1_DispatchBound == max_rounds >= 1 => Len(sent) <= max_rounds

\* C1 witness: the default budget of 3 is used up by a malformed round, a
\* round rejected by verification and a third call.
C1_Witness ==
    /\ pc = "done" /\ max_rounds = 3 /\ Len(sent) = 3
    /\ Unparseable(1)
    /\ RanVerification(2) /\ ~Valid(2)

\* C2: a transport call that fails, in whatever round, is the last call, and
\* solve returns the error_fallback result: error text starting 'LLM error'
\* and carrying the failure's message, final_answer null, nothing of an
\* earlier round's candidate in it.
C2_TransportFailureIsFatal ==
    \A i \in Rounds :
        received[i].raised =>
            /\ i = Len(received) /\ Len(sent) = i /\ pc = "done"
            /\ result.d.method = PyStr("error_fallback")
            /\ StartsWith(result.d.error.s, "LLM error")
            /\ EndsWith(result.d.error.s, received[i].text)
            /\ result.d.final_answer = None
            /\ DOMAIN result.d = {"problem", "error", "final_answer", "note", "method"}

\* C2 witness: the third call fails after a candidate rejected by verification
\* and a malformed response.
C2_Witness ==
    /\ Len(received) = 3 /\ received[3].raised
    /\ RanVerification(1) /\ ~Valid(1)
    /\ Unparseable(2)

\* the candidate of round i has a final answer: the field is there and holds
\* a value, null and the empty string counting as none
HasFinalAnswer(i) ==
    HasAnswerField(i) /\ Answer(i) # None /\ Answer(i) # PyStr("")

\* C3, as claimed: in a round whose candidate has a final answer, solve returns
\* the candidate with the round's verdict attached if and only if the verdict
\* is valid or the round is the last permitted one, and otherwise does not
\* return in that round.
C3_AcceptRuleAsClaimed ==
    \A i \in Rounds :
        (Handled(i) /\ HasFinalAnswer(i)) =>
            /\ AcceptedIn(i) <=> (Valid(i) \/ IsFinalRound(i))
            /\ ~(Valid(i) \/ IsFinalRound(i)) => ~ReturnedIn(i)

\* The accept rule of C3 on the answers the code does verify (line 63).
AcceptRuleOnVerifiedAnswers ==
    \A i \in Rounds :
        (Handled(i) /\ RanVerification(i)) =>
            /\ AcceptedIn(i) <=> (Valid(i) \/ IsFinalRound(i))
            /\ ~(Valid(i) \/ IsFinalRound(i)) => ~ReturnedIn(i)

\* C4: in a round that is not the last, a final answer that fails verification
\* makes solve append exactly one user message, which contains the rejected
\* answer and the verifier's error text, and the next call is made on the
\* conversation so extended.
C4_CorrectionAppended ==
    \A i \in Rounds :
        (Handled(i) /\ ~IsFinalRound(i) /\ RanVerification(i) /\ ~Valid(i)) =>
            /\ AppendedOneUserMessage(i)
            /\ Contains(Appended(i), Answer(i).s)
            /\ Contains(Appended(i), Verdict(i).d.error.s)
            /\ NextCallFollows(i)

\* C4 witness: the second call was made after the first answer was rejected.
C4_Witness ==
    /\ Len(sent) = 2
    /\ RanVerification(1) /\ ~Valid(1)
    /\ Len(sent[2]) = 3

\* C5: in a round that is not the last, a response that is not JSON makes
\* solve append exactly one user message asking for valid JSON and go on to
\* the next call; solve does not return in that round.
C5_JsonFixAppended ==
    \A i \in Rounds :
        (Handled(i) /\ ~IsFinalRound(i) /\ Unparseable(i)) =>
            /\ AppendedOneUserMessage(i)
            /\ Contains(Appended(i), "Your previous response was not valid JSON")
            /\ ~ReturnedIn(i)
            /\ NextCallFollows(i)

\* C5 witness: the second call was made after a malformed first response.
C5_Witness ==
    /\ Len(sent) = 2
    /\ Unparseable(1)
    /\ Len(sent[2]) = 3

\* C6: a response of the last permitted round that is not JSON ends solve with
\* the llm_parse_error result, whose raw_response is the text of that last
\* call.
C6_ParseErrorCarriesLastText ==
    \A i \in Rounds :
        (Handled(i) /\ IsFinalRound(i) /\ Unparseable(i)) =>
            /\ ReturnedIn(i)
            /\ result.d.method = PyStr("llm_parse_error")
            /\ "error" \in DOMAIN result.d
            /\ result.d.raw_response = PyStr(received[i].text)

\* C6 witness: two malformed responses with different texts, the second in
\* the last round.
C6_Witness ==
    /\ pc = "done" /\ max_rounds = 2 /\ Len(received) = 2
    /\ Unparseable(1) /\ Unparseable(2)
    /\ received[1].text # received[2].text

\* C7: a candidate without a final-answer field is returned at once, in any
\* round, with method llm_no_verification, no verdict attached, no message
\* appended and no further call.
C7_NoAnswerReturnsAtOnce ==
    \A i \in Rounds :
        (Handled(i) /\ IsCandidate(i) /\ ~HasAnswerField(i)) =>
            /\ ReturnedIn(i) /\ Len(sent) = i
            /\ result = SetItem(Candidate(i), "method", PyStr("llm_no_verification"))
            /\ "verification" \notin DOMAIN result.d
            /\ messages = sent[i]

\* C7 witness: the candidate of the second of three rounds has no answer field.
C7_Witness ==
    /\ pc = "done" /\ max_rounds = 3 /\ Len(received) = 2
    /\ IsCandidate(2) /\ ~HasAnswerField(2)

\* C8, as claimed: whenever the candidate has a final-answer field, whatever
\* its value, verify_mathematical_answer is run on it: a returned result has
\* the verdict attached, and a round that goes on has sent back the verdict's
\* error.
C8_AnswerFieldAlwaysVerified ==
    \A i \in Rounds :
        (Handled(i) /\ HasAnswerField(i)) =>
            IF ReturnedIn(i)
            THEN /\ "verification" \in DOMAIN result.d
                 /\ result.d.verification = Verdict(i)
            ELSE /\ AppendedOneUserMessage(i)
                 /\ Contains(Appended(i), Verdict(i).d.error.s)

\* every permitted round was used and none gave JSON
AllRoundsUnparseable ==
    /\ pc = "done" /\ max_rounds >= 1 /\ Len(received) = max_rounds
    /\ \A i \in Rounds : Unparseable(i)

\* C9, as claimed: max_rounds >= 1 rounds without a parseable candidate end
\* with method llm_max_rounds_exceeded, 'Maximum correction rounds exceeded'.
C9_ExhaustedAsClaimed ==
    AllRoundsUnparseable =>
        /\ result.d.method = PyStr("llm_max_rounds_exceeded")
        /\ result.d.error = PyStr("Maximum correction rounds exceeded")

\* C9, amended: max_rounds >= 1 rounds without a parseable candidate end with
\* method llm_parse_error, 'Failed to parse JSON response', which is not the
\* method returned for a candidate that emerged but never verified.
C9_ExhaustedGivesParseError ==
    /\ AllRoundsUnparseable =>
        /\ result.d.method = PyStr("llm_parse_error")
        /\ result.d.error = PyStr("Failed to parse JSON response")
    /\ \A i \in Rounds :
        (ReturnedIn(i) /\ RanVerification(i) /\ ~Valid(i)) =>
            result.d.method = PyStr("llm_with_verification")

\* C9 witness: three rounds, three malformed responses.
C9_Witness == AllRoundsUnparseable /\ max_rounds = 3

\* the completion reason line 70 gives an answer accepted with a valid verdict
VerifiedReason == PyStr("llm_with_verification")

\* C10, as claimed: with max_rounds = 1 there is at most one call, and a
\* single candidate whose answer fails verification is returned with the
\* invalid verdict attached, no correction message, no second call, and a
\* completion reason that says 'rounds exhausted, unverified', not 'verified'.
C10_SingleRoundAsClaimed ==
    /\ max_rounds = 1 => Len(sent) <= 1
    /\ (max_rounds = 1 /\ pc = "done" /\ Len(received) = 1
            /\ RanVerification(1) /\ ~Valid(1)) =>
        /\ AcceptedIn(1)
        /\ messages = sent[1]
        /\ result.d.method # VerifiedReason

\* What does hold of the single round of C10: everything but the reason.
SingleRoundAcceptsUnverified ==
    /\ max_rounds = 1 => Len(sent) <= 1
    /\ (max_rounds = 1 /\ pc = "done" /\ Len(received) = 1
            /\ RanVerification(1) /\ ~Valid(1)) =>
        /\ AcceptedIn(1)
        /\ messages = sent[1]

-----------------------------------------------------------------------------
(* The claims on the shape of the result, termination and the conversation *)

Methods ==
    { "hardcoded_example", "llm_with_verification", "llm_no_verification",
      "llm_parse_error", "llm_max_rounds_exceeded", "error_fallback" }

\* every chat_sync call made so far returned text
EveryCallReturned == \A i \in Rounds : ~received[i].raised

\* C12: for every problem, max_rounds (negative and 0 included), mode and
\* transport behaviour, solve never raises (while it has not returned it has a
\* step to take) and what it returns is a mapping with a 'method' field that
\* holds one of the six method names.
C12_AlwaysAMethod ==
    /\ pc \in {"start", "loop", "respond", "done"}
    /\ pc # "done" => ENABLED Next
    /\ pc = "done" =>
        /\ result.t = "dict"
        /\ "method" \in DOMAIN result.d
        /\ result.d.method.t = "str"
        /\ result.d.method.s \in Methods

\* C12 witness: solve has returned after a response that is JSON but no
\* object, whose handling raises AttributeError inside the loop.
C12_Witness ==
    /\ pc = "done" /\ Len(received) = 2
    /\ EveryCallReturned
    /\ json_loads(received[2].text).ok
    /\ json_loads(received[2].text).value.t # "dict"

\* C13, as claimed: a result with an 'error' field is returned only when a
\* call failed, or the last round's response was not interpretable, or the
\* rounds were exhausted; when every call returned text there is no
\* error_fallback result.
C13_FailureOnlyAsClaimed ==
    pc = "done" =>
        /\ "error" \in DOMAIN result.d =>
            \/ ~EveryCallReturned
            \/ /\ max_rounds >= 1 /\ Len(received) = max_rounds
               /\ Unparseable(max_rounds)
               /\ result.d.method = PyStr("llm_parse_error")
            \/ result.d.method = PyStr("llm_max_rounds_exceeded")
        /\ EveryCallReturned => result.d.method # PyStr("error_fallback")

\* What does hold of C13: without a failed call, error_fallback is returned
\* only for a response that is JSON but not an object.
FallbackOnlyForNonObjects ==
    (pc = "done" /\ EveryCallReturned /\ result.d.method = PyStr("error_fallback")) =>
        /\ Len(received) >= 1
        /\ json_loads(received[Len(received)].text).ok
        /\ json_loads(received[Len(received)].text).value.t # "dict"

\* C14: every solve invocation terminates, and every step is taken while no
\* result has been returned: the result is produced once, and after it there
\* is no call, interpretation or verification.
C14_TerminatesWithOneResult ==
    /\ <>(pc = "done")
    /\ [][pc # "done" /\ result = NoResult]_vars

\* C14 witness: a result returned after three calls.
C14_Witness == pc = "done" /\ Len(sent) = 3 /\ result # NoResult

IsPrefix(a, b) == Len(a) <= Len(b) /\ SubSeq(b, 1, Len(a)) = a

\* C15: every conversation handed to chat_sync starts with the system message
\* and the initial user prompt, each has the one before it as a strict prefix,
\* and the current conversation extends the last one handed over.
C15_ConversationAppendOnly ==
    /\ \A i \in 1..Len(sent) :
        /\ Len(sent[i]) >= 2
        /\ sent[i][1] = [role |-> "system", content |-> get_system_prompt(structured)]
        /\ sent[i][2] = [role |-> "user", content |-> format_user_prompt(problem)]
    /\ \A i \in 1..(Len(sent) - 1) :
        IsPrefix(sent[i], sent[i + 1]) /\ Len(sent[i]) < Len(sent[i + 1])
    /\ Len(sent) >= 1 => IsPrefix(sent[Len(sent)], messages)

\* C15 witness: three calls, the second after a JSON-fix message and the third
\* after a correction message.
C15_Witness ==
    /\ Len(sent) = 3
    /\ Unparseable(1)
    /\ RanVerification(2)
    /\ Len(sent[3]) = 4

\* the problem contains the fixture's pattern once its spaces are removed
MatchesFixture ==
    Contains(Replace(problem, " ", ""), "F(x)+F(x+T)=F(x+2)+F(x+T+6)")

\* C16: on a problem matching the fixture's pattern, for every max_rounds and
\* mode, solve creates no client and makes no call, and returns the final
\* answer "8" with method hardcoded_example.
C16_FixtureBypassesModel ==
    MatchesFixture =>
        /\ pc \in {"start", "done"}
        /\ ~client /\ messages = <<>> /\ sent = <<>> /\ received = <<>>
        /\ pc = "done" =>
            /\ result.d.final_answer = PyStr("8")
            /\ result.d.method = PyStr("hardcoded_example")

\* C16 witness: the fixture, written with spaces, has been answered.
C16_Witness ==
    /\ MatchesFixture /\ pc = "done"
    /\ problem # Replace(problem, " ", "")

\* C17, as claimed: the result for the fixture reports the verification as
\* passed (steps_verified true, the equality check's ok = 'True').
C17_FixtureVerifiedAsClaimed ==
    (MatchesFixture /\ pc = "done") =>
        /\ result.d.steps_verified = True
        /\ result.d.verifications.items[1].d.ok = PyStr("True")

\* What the fixture's result does report: the check was made and did not pass.
FixtureReportsNotVerified ==
    (MatchesFixture /\ pc = "done") =>
        /\ result.d.steps_verified = False
        /\ result.d.verifications.items[1].d.ok = PyStr("False")
        /\ result.d.verifications.items[1].d.error = None

-----------------------------------------------------------------------------
(* Several invocations of solve: concurrent callers and batch_solve.  Each    *)
(* invocation has its own local variables (a record of calls); parse_latex is *)
(* the module state they all read.                                            *)

\* max_rounds of these invocations is drawn from 0..CallRounds
CallRounds == 2

CallProblems ==
    { "What is 1/4 + 1/4?",
      "If F(x) + F(x+T) = F(x+2) + F(x+T+6) for all x, find T" }

CallResponses ==
    { "{\"final_answer\": \"1/2\", \"approach\": \"add the quarters\"}",
      "{\"final_answer\": \"2 +\", \"approach\": \"guess\"}",
      "The answer is 1/2" }

CallErrors == { "429 Resource has been exhausted" }

\* the local variables of solve(p, max_rounds=m, structured=s) as it starts
Invocation(p, m, s) ==
    [pc |-> "start", problem |-> p, max_rounds |-> m, structured |-> s,
     client |-> FALSE, messages |-> <<>>, round_num |-> 0, content |-> "",
     result |-> NoResult, sent |-> <<>>, received |-> <<>>]

\* the variables of the single invocation, which these specifications leave alone
single == <<pc, problem, max_rounds, structured, client, messages, round_num,
            content, result, sent, received>>

NoSingle ==
    /\ pc = "unused" /\ problem = "" /\ max_rounds = 0 /\ structured = FALSE
    /\ client = FALSE /\ messages = <<>> /\ round_num = 0 /\ content = ""
    /\ result = NoResult /\ sent = <<>> /\ received = <<>>

\* lines 31-39 in invocation i
CallHardcodedExample(i) ==
    /\ calls[i].pc = "start"
    /\ IsHardcodedExample(calls[i].problem)
    /\ calls' = [calls EXCEPT
                    ![i].result = hardcoded_example(calls[i].problem, parse_latex),
                    ![i].pc = "done"]
    /\ UNCHANGED <<single, parse_latex, batch, unit, cli>>

\* mutant of CallBuildConversation: the mode also changes the user prompt
CallBuildConversationByMode(i) ==
    /\ calls[i].pc = "start"
    /\ ~IsHardcodedExample(calls[i].problem)
    /\ calls' = [calls EXCEPT
                    ![i].client = TRUE,
                    ![i].messages =
                        << [role |-> "system",
                            content |-> get_system_prompt(calls[i].structured)],
                           [role |-> "user",
                            content |-> get_system_prompt(calls[i].structured)
                                        \o format_user_prompt(calls[i].problem)] >>,
                    ![i].round_num = 0,
                    ![i].pc = "loop"]
    /\ UNCHANGED <<single, parse_latex, batch, unit, cli>>

\* lines 43-50 in invocation i
CallBuildConversation(i) ==
    /\ calls[i].pc = "start"
    /\ ~IsHardcodedExample(calls[i].problem)
    /\ calls' = [calls EXCEPT
                    ![i].client = TRUE,
                    ![i].messages =
                        << [role |-> "system",
                            content |-> get_system_prompt(calls[i].structured)],
                           [role |-> "user",
                            content |-> format_user_prompt(calls[i].problem)] >>,
                    ![i].round_num = 0,
                    ![i].pc = "loop"]
    /\ UNCHANGED <<single, parse_latex, batch, unit, cli>>

\* lines 54-55 in invocation i: chat_sync returns
CallChatSyncReturns(i) ==
    /\ calls[i].pc = "loop"
    /\ InRange(calls[i].round_num, calls[i].max_rounds)
    /\ \E text \in CallResponses :
        calls' = [calls EXCEPT
                    ![i].content = text,
                    ![i].received = Append(@, [raised |-> FALSE, text |-> text]),
                    ![i].sent = Append(@, calls[i].messages),
                    ![i].pc = "respond"]
    /\ UNCHANGED <<single, parse_latex, batch, unit, cli>>

\* line 54 raising in invocation i, caught at line 112
CallChatSyncRaises(i) ==
    /\ calls[i].pc = "loop"
    /\ InRange(calls[i].round_num, calls[i].max_rounds)
    /\ \E e \in CallErrors :
        calls' = [calls EXCEPT
                    ![i].received = Append(@, [raised |-> TRUE, text |-> e]),
                    ![i].sent = Append(@, calls[i].messages),
                    ![i].result = error_fallback(calls[i].problem, e),
                    ![i].pc = "done"]
    /\ UNCHANGED <<single, parse_latex, batch, unit, cli>>

\* mutant of CallHandleResponse: the conversation is one list shared by the
\* invocations (a message appended by one is appended for all)
CallHandleResponseSharedConversation(i) ==
    /\ calls[i].pc = "respond"
    /\ \E out \in {RoundBody(calls[i].problem, calls[i].content, calls[i].round_num,
                             calls[i].max_rounds, parse_latex)} :
           \/ /\ out.kind = "return"
              /\ calls' = [calls EXCEPT ![i].result = out.value, ![i].pc = "done"]
           \/ /\ out.kind = "continue"
              /\ calls' = [j \in DOMAIN calls |->
                            IF j = i
                            THEN [calls[j] EXCEPT
                                    !.messages = Append(@, out.value),
                                    !.round_num = @ + 1,
                                    !.pc = "loop"]
                            ELSE [calls[j] EXCEPT !.messages = Append(@, out.value)]]
           \/ /\ out.kind = "raise"
              /\ calls' = [calls EXCEPT
                            ![i].result = error_fallback(calls[i].problem, out.value),
                            ![i].pc = "done"]
    /\ UNCHANGED <<single, parse_latex, batch, unit, cli>>

\* lines 57-103 in invocation i
CallHandleResponse(i) ==
    /\ calls[i].pc = "respond"
    /\ \E out \in {RoundBody(calls[i].problem, calls[i].content, calls[i].round_num,
                             calls[i].max_rounds, parse_latex)} :
           \/ /\ out.kind = "return"
              /\ calls' = [calls EXCEPT ![i].result = out.value, ![i].pc = "done"]
           \/ /\ out.kind = "continue"
              /\ calls' = [calls EXCEPT
                            ![i].messages = Append(@, out.value),
                            ![i].round_num = @ + 1,
                            ![i].pc = "loop"]
           \/ /\ out.kind = "raise"
              /\ calls' = [calls EXCEPT
                            ![i].result = error_fallback(calls[i].problem, out.value),
                            ![i].pc = "done"]
    /\ UNCHANGED <<single, parse_latex, batch, unit, cli>>

\* lines 105-110 in invocation i
CallMaxRoundsExceeded(i) ==
    /\ calls[i].pc = "loop"
    /\ ~InRange(calls[i].round_num, calls[i].max_rounds)
    /\ calls' = [calls EXCEPT
                    ![i].result = llm_max_rounds_exceeded(calls[i].problem),
                    ![i].pc = "done"]
    /\ UNCHANGED <<single, parse_latex, batch, unit, cli>>

\* two callers of solve, their steps interleaved in any order
\* (none of CallResponses is LaTeX: parse_latex is not read on them)
ConcurrentInit ==
    /\ NoSingle
    /\ parse_latex = FALSE
    /\ batch = <<>>
    /\ unit = <<>>
    /\ cli = <<>>
    /\ calls \in [1..2 -> {Invocation(p, m, s) :
                            p \in CallProblems, m \in 0..CallRounds, s \in BOOLEAN}]

ConcurrentNext ==
    \/ \E i \in DOMAIN calls : CallHardcodedExample(i)
    \/ \E i \in DOMAIN calls : CallBuildConversation(i)
    \/ \E i \in DOMAIN calls : CallChatSyncReturns(i)
    \/ \E i \in DOMAIN calls : CallChatSyncRaises(i)
    \/ \E i \in DOMAIN calls : CallHandleResponse(i)
    \/ \E i \in DOMAIN calls : CallMaxRoundsExceeded(i)

ConcurrentSpec == ConcurrentInit /\ [][ConcurrentNext]_vars

-----------------------------------------------------------------------------
(* solve run alone against a given sequence of transport outcomes *)

Alone(value, conversation, dispatched) ==
    [result |-> value, messages |-> conversation, sent |-> dispatched]

\* the loop from round r on, with conversation msgs, the outcome of the call of
\* round r being outcomes[r + 1]; NoResult where the outcomes run out
RECURSIVE RunLoop(_, _, _, _, _, _, _)
RunLoop(p, m, latex, outcomes, r, msgs, dispatched) ==
    IF ~InRange(r, m)
    THEN Alone(llm_max_rounds_exceeded(p), msgs, dispatched)
    ELSE IF r + 1 > Len(outcomes)
    THEN Alone(NoResult, msgs, dispatched)
    ELSE IF outcomes[r + 1].raised
    THEN Alone(error_fallback(p, outcomes[r + 1].text), msgs, Append(dispatched, msgs))
    ELSE Bind(RoundBody(p, outcomes[r + 1].text, r, m, latex), LAMBDA out :
            CASE out.kind = "return" ->
                    Alone(out.value, msgs, Append(dispatched, msgs))
              [] out.kind = "raise" ->
                    Alone(error_fallback(p, out.value), msgs, Append(dispatched, msgs))
              [] out.kind = "continue" ->
                    RunLoop(p, m, latex, outcomes, r + 1, Append(msgs, out.value),
                            Append(dispatched, msgs)))

\* solve(p, max_rounds=m, structured=s) against the outcomes: its result, its
\* final conversation and the conversations it handed to chat_sync
RunAlone(p, m, s, latex, outcomes) ==
    IF IsHardcodedExample(p)
    THEN Alone(hardcoded_example(p, latex), <<>>, <<>>)
    ELSE RunLoop(p, m, latex, outcomes, 0,
                 << [role |-> "system", content |-> get_system_prompt(s)],
                    [role |-> "user", content |-> format_user_prompt(p)] >>,
                 <<>>)

\* invocation c does what solve run alone does against c's own outcomes
AsAlone(c) ==
    Bind(RunAlone(c.problem, c.max_rounds, c.structured, parse_latex, c.received),
         LAMBDA alone :
            /\ c.sent = alone.sent
            /\ c.pc = "done" => c.result = alone.result /\ c.messages = alone.messages)

AfterSystem(conversation) == SubSeq(conversation, 2, Len(conversation))

\* C18: a plain and a structured invocation with the same problem, the same
\* max_rounds and the same transport outcomes make the same number of calls,
\* have the same conversation after the system message, which differs, and
\* return the same result.
C18_ModeChangesSystemMessageOnly ==
    \A i, j \in DOMAIN calls :
        (/\ calls[i].pc = "done" /\ calls[j].pc = "done"
         /\ ~calls[i].structured /\ calls[j].structured
         /\ calls[i].problem = calls[j].problem
         /\ calls[i].max_rounds = calls[j].max_rounds
         /\ calls[i].received = calls[j].received) =>
            /\ calls[i].result = calls[j].result
            /\ Len(calls[i].sent) = Len(calls[j].sent)
            /\ AfterSystem(calls[i].messages) = AfterSystem(calls[j].messages)
            /\ \A k \in 1..Len(calls[i].sent) :
                /\ AfterSystem(calls[i].sent[k]) = AfterSystem(calls[j].sent[k])
                /\ calls[i].sent[k][1].role = "system"
                /\ calls[j].sent[k][1].role = "system"
                /\ calls[i].sent[k][1] # calls[j].sent[k][1]

\* C18 witness: a plain and a structured invocation returned after the same
\* two outcomes, the first of them answered by a correction message.
C18_Witness ==
    /\ DOMAIN calls = 1..2
    /\ calls[1].pc = "done" /\ calls[2].pc = "done"
    /\ ~calls[1].structured /\ calls[2].structured
    /\ calls[1].problem = calls[2].problem
    /\ calls[1].max_rounds = calls[2].max_rounds
    /\ calls[1].received = calls[2].received
    /\ Len(calls[1].received) = 2
    /\ Len(calls[1].messages) = 3

\* the result of invocation c carries a verdict / a valid verdict
HasVerdict(c) == c.pc = "done" /\ "verification" \in DOMAIN c.result.d

HasValidVerdict(c) == HasVerdict(c) /\ Truthy(c.result.d.verification.d.is_valid)

\* C11, as claimed: a candidate accepted with a valid verdict and a candidate
\* accepted on the last round with an invalid verdict never carry the same
\* 'method'.
C11_MethodTellsVerifiedFromUnverified ==
    \A i, j \in DOMAIN calls :
        (/\ HasValidVerdict(calls[i])
         /\ HasVerdict(calls[j]) /\ ~HasValidVerdict(calls[j])
         /\ Len(calls[j].received) = calls[j].max_rounds) =>
            calls[i].result.d.method # calls[j].result.d.method

\* What 'method' does tell apart: a result with a verdict, one without a
\* verdict that is a candidate, and the failure records.
MethodTellsVerdictFromNone ==
    \A i \in DOMAIN calls :
        calls[i].pc = "done" =>
            /\ HasVerdict(calls[i]) <=>
                    calls[i].result.d.method = PyStr("llm_with_verification")
            /\ "error" \in DOMAIN calls[i].result.d <=>
                    calls[i].result.d.method.s \in
                        {"llm_parse_error", "llm_max_rounds_exceeded", "error_fallback"}

-----------------------------------------------------------------------------
(* controller.batch_solve *)

\* the lists given to batch_solve have 0..BatchSize problems
BatchSize == 2

AllDone == \A i \in DOMAIN calls : calls[i].pc = "done"

\* batch_solve(problems, max_rounds=..., structured=...) as it starts
BatchInit ==
    /\ NoSingle
    /\ parse_latex = FALSE
    /\ calls = <<>>
    /\ unit = <<>>
    /\ cli = <<>>
    /\ \E n \in 0..BatchSize :
        batch \in [problems : [1..n -> CallProblems],
                   max_rounds : 0..CallRounds,
                   structured : BOOLEAN,
                   returned : {FALSE},
                   results : {<<>>}]

\* line 134: the comprehension calls solve on the next problem
BatchEnter ==
    /\ ~batch.returned
    /\ AllDone
    /\ Len(calls) < Len(batch.problems)
    /\ calls' = Append(calls, Invocation(batch.problems[Len(calls) + 1],
                                         batch.max_rounds, batch.structured))
    /\ UNCHANGED <<single, parse_latex, batch, unit, cli>>

\* mutant of BatchReturn: the batch ends at the first transport-failure result
BatchReturnAtFirstFailure ==
    /\ ~batch.returned
    /\ AllDone
    /\ \/ Len(calls) = Len(batch.problems)
       \/ /\ Len(calls) >= 1
          /\ calls[Len(calls)].result.d.method = PyStr("error_fallback")
    /\ batch' = [batch EXCEPT !.returned = TRUE,
                              !.results = [i \in 1..Len(calls) |-> calls[i].result]]
    /\ UNCHANGED <<single, parse_latex, calls, unit, cli>>

\* line 134: the list of the results is returned
BatchReturn ==
    /\ ~batch.returned
    /\ AllDone
    /\ Len(calls) = Len(batch.problems)
    /\ batch' = [batch EXCEPT !.returned = TRUE,
                              !.results = [i \in 1..Len(calls) |-> calls[i].result]]
    /\ UNCHANGED <<single, parse_latex, calls, unit, cli>>

BatchNext ==
    \/ BatchEnter
    \/ \E i \in DOMAIN calls : CallHardcodedExample(i)
    \/ \E i \in DOMAIN calls : CallBuildConversation(i)
    \/ \E i \in DOMAIN calls : CallChatSyncReturns(i)
    \/ \E i \in DOMAIN calls : CallChatSyncRaises(i)
    \/ \E i \in DOMAIN calls : CallHandleResponse(i)
    \/ \E i \in DOMAIN calls : CallMaxRoundsExceeded(i)
    \/ BatchReturn

BatchSpec == BatchInit /\ [][BatchNext]_vars

\* a transport call of invocation c failed
TransportFailed(c) == \E k \in 1..Len(c.received) : c.received[k].raised

\* a response to invocation c was JSON but no object (line 62 raises on it)
OtherFailure(c) ==
    \E k \in 1..Len(c.received) :
        /\ ~c.received[k].raised
        /\ json_loads(c.received[k].text).ok
        /\ json_loads(c.received[k].text).value.t # "dict"

\* C19: batch_solve goes on until it returns (no failure stops it), one solve
\* at a time; the list it returns has one result per problem, the i-th being
\* what solve alone returns for the i-th problem with the batch's options
\* against the same outcomes; a transport failure (or other failure) in solve
\* i makes result i the error_fallback result, which is in no result whose own
\* solve met no failure, each result being a mapping with one of the six
\* methods.
C19_BatchIsPerProblemSolve ==
    /\ ~batch.returned => ENABLED BatchNext
    /\ \A i \in DOMAIN calls : i < Len(calls) => calls[i].pc = "done"
    /\ batch.returned =>
        /\ Len(batch.results) = Len(batch.problems)
        /\ \A i \in 1..Len(batch.results) :
            /\ batch.results[i] =
                    RunAlone(batch.problems[i], batch.max_rounds, batch.structured,
                             parse_latex, calls[i].received).result
            /\ batch.results[i].d.method.s \in Methods
            /\ (TransportFailed(calls[i]) \/ OtherFailure(calls[i])) <=>
                    batch.results[i].d.method = PyStr("error_fallback")

\* C19 witness: a returned batch of two problems where the first solve met a
\* transport failure and the second returned a verified answer.
C19_Witness ==
    /\ batch.returned
    /\ Len(batch.results) = 2
    /\ TransportFailed(calls[1])
    /\ ~TransportFailed(calls[2])
    /\ batch.results[2].d.method = PyStr("llm_with_verification")
    /\ Truthy(batch.results[2].d.verification.d.is_valid)


-----------------------------------------------------------------------------
(* The functions of cas_verifier called on their own: unit is the call,      *)
(* its arguments and the values returned so far.                             *)

NormalizeDepth == 2

\* texts handed to verify_equality
EqualityTexts ==
    { "x+2", "2+x", "x", "x+1", "1", "0", "1/2", "sin(x)**2+cos(x)**2",
      "F(x)-F(x+8)", "\\frac{1}{2}", "$x$", "", "  ", "2 +" }

\* the difference of two parsed expressions is one the engine tables hold
DifferenceKnown(l, r) ==
    \/ IsLinear(l) /\ IsLinear(r)
    \/ r.str = "0"
    \/ l.str = r.str
    \/ l.str = "sin(x)**2 + cos(x)**2" /\ r.str = "1"

EqualityPairs(latex) ==
    { pair \in EqualityTexts \X EqualityTexts :
        Bind(_parse(pair[1], latex), LAMBDA l :
        Bind(_parse(pair[2], latex), LAMBDA r :
            ~l.ok \/ ~r.ok \/ DifferenceKnown(l.value, r.value))) }

\* values handed to verify_mathematical_answer as the answer
AnswerValues ==
    { PyStr(""), PyStr(" "), PyStr("   "), PyStr("\t\n"), PyStr("1/2"),
      PyStr("x = 2"), PyStr("answer = 5"), PyStr("the answer is 1/2"),
      PyStr("x+2"), PyStr("sin(x)**2+cos(x)**2"), PyStr("2 +"),
      PyStr("\\frac{1}{2}"), PyStr("$x$"), PyStr("$$"), PyStr("2x + 1 = 5"),
      PyStr("F(x)-F(x+8)"),
      PyInt("5"), PyInt("0"), None, True, PyListOf(<<PyInt("1"), PyInt("2")>>),
      PyDict([value |-> PyStr("1/2")]) }

\* the context argument
Contexts == { "", "What is 1/4 + 1/4?" }

\* texts handed to clean_expression
ExpressionTexts ==
    { "the the 5", "answer = x = 2", "x = 2", "X = 2", " y  =  x+1 ",
      "answer = 3", "Result = 3", "SOLUTION = 3", "2x + 1 = 5", "xy = 3",
      "f'(x) = 2x", "derivative = 2x", "d/dx x² = 2x", "the answer is 1/2",
      "The Answer Is x = 2", "sin(30°)", "x² + 1", "ln(x)", "π/6", "3 × 4",
      "6 ÷ 3", "a·b", "x³ + x¹", "", "  ", "answer is 5", "5", "x = ",
      " = 5", "x==2", "y = the 5", "is = 4", "equals 7", "T = 8" }

\* texts handed to _parse
ParseTexts ==
    { "", "  ", "$$", "$ $", " $$ ", "$", "$x$", "$1/2$", "1/2", "x+1", "2 +",
      "\\frac{1}{2}", "$\\frac{1}{2}$", "\\frac{1}{", "Symbol('^{')" }

UnitCall(fn, args) == [fn |-> fn, args |-> args, outs |-> <<>>]

\* a call of _parse: where it is, its local expr, and the calls of the engine
\* it has made, in order
ParseCall(text) ==
    [fn |-> "_parse", args |-> <<text>>, outs |-> <<>>, pc |-> "strip",
     expr |-> text, engine |-> <<>>]

EngineCall(parser, text, out) == [parser |-> parser, text |-> text, out |-> out]

VerifierInit ==
    /\ NoSingle
    /\ parse_latex \in BOOLEAN
    /\ calls = <<>>
    /\ batch = <<>>
    /\ cli = <<>>
    /\ unit \in
        {UnitCall("verify_equality", pair) : pair \in EqualityPairs(parse_latex)}
        \cup {UnitCall("verify_mathematical_answer", <<v, c>>) :
                v \in AnswerValues, c \in Contexts}
        \cup {UnitCall("clean_expression", <<e>>) : e \in ExpressionTexts}
        \cup {ParseCall(text) : text \in ParseTexts}

Returned(value) ==
    /\ unit' = [unit EXCEPT !.outs = Append(@, value)]
    /\ UNCHANGED <<single, parse_latex, calls, batch, cli>>

VerifyEquality ==
    /\ unit.fn = "verify_equality"
    /\ unit.outs = <<>>
    /\ Returned(verify_equality(unit.args[1], unit.args[2], parse_latex))

VerifyMathematicalAnswer ==
    /\ unit.fn = "verify_mathematical_answer"
    /\ unit.outs = <<>>
    /\ Returned(verify_mathematical_answer(unit.args[1], unit.args[2], parse_latex))

\* verify_mathematical_answer called once more on the same answer, with any
\* context: args[k + 1] is the context of the k-th call
VerifyMathematicalAnswerAgain ==
    /\ unit.fn = "verify_mathematical_answer"
    /\ Len(unit.outs) = 1
    /\ \E context \in Contexts \cup Problems :
        /\ unit' = [unit EXCEPT
                !.args = Append(@, context),
                !.outs = Append(@, verify_mathematical_answer(unit.args[1], context,
                                                             parse_latex))]
        /\ UNCHANGED <<single, parse_latex, calls, batch, cli>>

\* clean_expression on the text, then on what it returned
CleanExpression ==
    /\ unit.fn = "clean_expression"
    /\ Len(unit.outs) < NormalizeDepth
    /\ Returned(clean_expression(IF unit.outs = <<>> THEN unit.args[1]
                                 ELSE unit.outs[Len(unit.outs)]))

ParseStep(next) ==
    /\ unit' = next
    /\ UNCHANGED <<single, parse_latex, calls, batch, cli>>

\* _parse, lines 38-40
ParseStrip ==
    /\ unit.fn = "_parse"
    /\ unit.pc = "strip"
    /\ ParseStep(IF Strip(unit.expr) = ""
                 THEN [unit EXCEPT !.expr = Strip(@), !.pc = "done",
                                   !.outs = <<Raise("empty expression")>>]
                 ELSE [unit EXCEPT !.expr = Strip(@), !.pc = "dollars"])

\* _parse, lines 43-44
ParseStripDollars ==
    /\ unit.fn = "_parse"
    /\ unit.pc = "dollars"
    /\ ParseStep([unit EXCEPT !.expr = StripDollars(@), !.pc = "latex"])

\* lines 47-51 without the except branch: the markup parser's error leaves
\* _parse
ParseLatexPropagating ==
    /\ unit.fn = "_parse"
    /\ unit.pc = "latex"
    /\ IF parse_latex /\ _looks_like_latex(unit.expr)
       THEN \E out \in MarkupOutcomes(unit.expr) :
               ParseStep([unit EXCEPT
                   !.engine = Append(@, EngineCall("parse_latex", unit.expr, out)),
                   !.pc = "done",
                   !.outs = <<out>>])
       ELSE ParseStep([unit EXCEPT !.pc = "sympify"])

\* _parse, lines 47-51
ParseLatex ==
    /\ unit.fn = "_parse"
    /\ unit.pc = "latex"
    /\ IF parse_latex /\ _looks_like_latex(unit.expr)
       THEN \E out \in MarkupOutcomes(unit.expr) :
               ParseStep([unit EXCEPT
                   !.engine = Append(@, EngineCall("parse_latex", unit.expr, out)),
                   !.pc = IF out.ok THEN "done" ELSE "sympify",
                   !.outs = IF out.ok THEN <<out>> ELSE <<>>])
       ELSE ParseStep([unit EXCEPT !.pc = "sympify"])

\* _parse, line 54
ParseSympify ==
    /\ unit.fn = "_parse"
    /\ unit.pc = "sympify"
    /\ ParseStep([unit EXCEPT
           !.engine = Append(@, EngineCall("sympify", unit.expr, sympify(unit.expr))),
           !.pc = "done",
           !.outs = <<sympify(unit.expr)>>])

VerifierNext ==
    \/ VerifyEquality
    \/ VerifyMathematicalAnswer
    \/ VerifyMathematicalAnswerAgain
    \/ CleanExpression
    \/ ParseStrip
    \/ ParseStripDollars
    \/ ParseLatex
    \/ ParseSympify

VerifierSpec == VerifierInit /\ [][VerifierNext]_vars

Called(fn) == unit.fn = fn /\ unit.outs # <<>>


-----------------------------------------------------------------------------
(* The claims on cas_verifier *)

\* the call of verify_equality: its result and the parse of each side
EqualityOut == unit.outs[1]
ParsedLhs == _parse(unit.args[1], parse_latex)
ParsedRhs == _parse(unit.args[2], parse_latex)

IsVerdictOfEquality(out) ==
    /\ DOMAIN out = {"t", "d"}
    /\ out.t = "dict"
    /\ DOMAIN out.d = {"ok", "diff_simplified", "error"}

\* C21: verify_equality never raises: it returns a mapping; when a side fails
\* to parse, ok is 'False', diff_simplified is None and error is the message
\* of the failure; when both sides parse, error is None and diff_simplified
\* is a text.
C21_EqualityNeverRaises ==
    Called("verify_equality") =>
        /\ IsVerdictOfEquality(EqualityOut)
        /\ ~ParsedLhs.ok =>
            EqualityOut = EqualityError(ParsedLhs.exc)
        /\ ParsedLhs.ok /\ ~ParsedRhs.ok =>
            EqualityOut = EqualityError(ParsedRhs.exc)
        /\ ParsedLhs.ok /\ ParsedRhs.ok =>
            /\ EqualityOut.d.error = None
            /\ EqualityOut.d.diff_simplified.t = "str"

\* C21 witness: the left side parsed, the right side did not, and the call
\* returned the failure's message
C21_Witness ==
    /\ Called("verify_equality")
    /\ unit.args = <<"x+2", "2 +">>
    /\ EqualityOut.d.ok = PyStr("False")
    /\ EqualityOut.d.error # None

\* two expressions of the engine tables with the same value
SameValue(l, r) ==
    \/ IsLinear(l) /\ IsLinear(r) /\ Linear(l) = Linear(r)
    \/ l.str = r.str
    \/ l.str = "sin(x)**2 + cos(x)**2" /\ r.str = "1"

UnequalPairReported ==
    /\ Called("verify_equality")
    /\ unit.args = <<"x", "x+1">>
    /\ EqualityOut.d.ok = PyStr("False")
    /\ EqualityOut.d.diff_simplified = PyStr("-1")


\* the call of verify_mathematical_answer: its result
VerdictOut == unit.outs[1]

IsBlank(text) == Strip(text) = ""

\* C23: on the empty string and on a whitespace-only string,
\* verify_mathematical_answer returns is_valid False, verification_details
\* None and an error, and does not raise.
C23_BlankAnswerIsInvalid ==
    /\ Called("verify_mathematical_answer")
    /\ unit.args[1].t = "str"
    /\ IsBlank(unit.args[1].s)
    =>  /\ DOMAIN VerdictOut = {"t", "d"}
        /\ VerdictOut.t = "dict"
        /\ VerdictOut.d.is_valid = False
        /\ VerdictOut.d.verification_details = None
        /\ VerdictOut.d.error # None

\* C23 witness: the call on a whitespace-only string returned the error of
\* the empty expression
C23_Witness ==
    /\ Called("verify_mathematical_answer")
    /\ unit.args[1] = PyStr("\t\n")
    /\ VerdictOut.d.error = PyStr("SymPy parsing error: empty expression")

ValidShape(out) ==
    /\ out.d.is_valid = True
    /\ out.d.simplified_answer # None
    /\ out.d.verification_details # None
    /\ out.d.error = None

InvalidShape(out) ==
    /\ out.d.is_valid = False
    /\ out.d.simplified_answer = None
    /\ out.d.verification_details = None
    /\ out.d.error # None

\* the normalization and the parse of the answer, for answers that are texts
ParsedAnswer == _parse(clean_expression(unit.args[1].s), parse_latex)

\* C24: verify_mathematical_answer never raises, also on values that are no
\* texts; its verdict has the valid shape or the invalid shape, and a failure
\* of normalization or parsing gives the invalid shape.
C24_VerdictHasOneOfTwoShapes ==
    Called("verify_mathematical_answer") =>
        /\ DOMAIN VerdictOut = {"t", "d"}
        /\ VerdictOut.t = "dict"
        /\ DOMAIN VerdictOut.d =
            {"is_valid", "simplified_answer", "verification_details", "error"}
        /\ ValidShape(VerdictOut) \/ InvalidShape(VerdictOut)
        /\ unit.args[1].t # "str" => InvalidShape(VerdictOut)
        /\ unit.args[1].t = "str" =>
            IF ParsedAnswer.ok THEN ValidShape(VerdictOut)
            ELSE InvalidShape(VerdictOut)

\* C24 witness: a call on a value that is no text returned the invalid shape
C24_Witness ==
    /\ Called("verify_mathematical_answer")
    /\ unit.args[1] = None
    /\ InvalidShape(VerdictOut)

\* a call on a text that parses returned the valid shape
ValidVerdictReturned ==
    /\ Called("verify_mathematical_answer")
    /\ unit.args[1] = PyStr("the answer is 1/2")
    /\ ValidShape(VerdictOut)


\* the texts returned by clean_expression and by clean_expression on that
Normalized == unit.outs[1]
NormalizedTwice == unit.outs[2]

\* C25: clean_expression is idempotent: applied to its own result it returns
\* that result.
C25_NormalizeIdempotent ==
    Called("clean_expression") /\ Len(unit.outs) >= 2 =>
        NormalizedTwice = Normalized

\* the input of clean_expression as line 59 strips it, and its sides
Original == Strip(unit.args[1])
HasOneEquals == Count(Original, "=") = 1
LeftSide == Strip(SubSeq(Original, 1, FindFrom(Original, "=", 1) - 1))
RightSide == Strip(SubSeq(Original, FindFrom(Original, "=", 1) + 1, Len(Original)))

\* lines 90-130 of clean_expression: what is done to the text that was kept
Rewritten(kept) ==
    Bind(ReplaceAll(kept, 1), LAMBDA e2 :
    Bind(DropFillerWords(e2), LAMBDA e3 :
    Bind(Strip(e3), LAMBDA e4 : SubPrefix(e4))))

\* the left side is a single letter or one of answer / result / solution
IsLetterOrKeyword(left) ==
    \/ Len(left) = 1 /\ IsLetter(left)
    \/ Lower(left) \in {"answer", "result", "solution"}

\* the text is in derivative notation (line 62)
IsDerivativeNotation(text) ==
    \/ Contains(text, "f'")
    \/ Contains(text, "d/dx")
    \/ Contains(Lower(text), "derivative")

\* C26 as claimed: with exactly one "=", the right side alone is kept if and
\* only if the left side is a single letter or a keyword; otherwise the whole
\* text is kept.
C26_RightSideIffAssignment ==
    Called("clean_expression") /\ HasOneEquals =>
        Normalized = Rewritten(IF IsLetterOrKeyword(LeftSide) THEN RightSide
                               ELSE Original)

\* C26 amended: with exactly one "=", the right side alone is kept if and only
\* if the left side is a single letter or a keyword or the text is in
\* derivative notation; otherwise the whole text is kept.
C26_RightSideIffAssignmentOrDerivative ==
    Called("clean_expression") /\ HasOneEquals =>
        Normalized = Rewritten(IF \/ IsLetterOrKeyword(LeftSide)
                                  \/ IsDerivativeNotation(Original)
                               THEN RightSide ELSE Original)

\* C26 witness: a keyword in capitals on the left, the right side kept
C26_Witness ==
    /\ Called("clean_expression")
    /\ unit.args = <<"Result = 3">>
    /\ Normalized = "3"

\* an equation kept whole, and the right side of a derivative kept
EquationKeptWhole ==
    /\ Called("clean_expression")
    /\ unit.args = <<"2x + 1 = 5">>
    /\ Normalized = "2x + 1 = 5"

DerivativeKeepsRightSide ==
    /\ Called("clean_expression")
    /\ unit.args = <<"f'(x) = 2x">>
    /\ Normalized = "2x"


-----------------------------------------------------------------------------
(* llm_client: the interpretation of the model's text in solve_question *)

\* the largest index of sub in s, 0 if there is none
FindLast(s, sub) ==
    Bind({k \in 1..(Len(s) - Len(sub) + 1) : SubSeq(s, k, k + Len(sub) - 1) = sub},
         LAMBDA at : IF at = {} THEN 0 ELSE CHOOSE k \in at : \A j \in at : k >= j)

\* re.search(r'\{.*\}', content, re.DOTALL): the match, from the first "{" to
\* the last "}" after it
SearchBraces(text) ==
    Bind(FindFrom(text, "{", 1), LAMBDA first :
    Bind(FindLast(text, "}"), LAMBDA last :
        IF first # 0 /\ last > first
        THEN Ok(SubSeq(text, first, last))
        ELSE Raise("no match")))

\* the failure record with the brace-bounded substring as raw
ParseFailureKeepingMatch(text) ==
    PyDict([error |-> PyStr("Failed to parse JSON"),
            raw |-> PyStr(IF SearchBraces(text).ok THEN SearchBraces(text).value
                          ELSE text),
            final_answer |-> PyStr("Parse error - see raw output"),
            approach |-> PyStr("Could not extract structured response"),
            critical_thinking |-> PyStr("LLM returned malformed JSON")])

\* lines 112-118
ParseFailure(text) ==
    PyDict([error |-> PyStr("Failed to parse JSON"),
            raw |-> PyStr(text),
            final_answer |-> PyStr("Parse error - see raw output"),
            approach |-> PyStr("Could not extract structured response"),
            critical_thinking |-> PyStr("LLM returned malformed JSON")])

_repair_json_response(text) ==
    Bind(SearchBraces(text), LAMBDA match :
        IF match.ok /\ json_loads(match.value).ok
        THEN json_loads(match.value).value
        ELSE ParseFailure(text))

\* lines 84-89 of solve_question
ParseResponse(text) ==
    IF json_loads(text).ok THEN json_loads(text).value
    ELSE _repair_json_response(text)

\* line 92
ApiError(e) == PyDict([error |-> PyStr("LLM API error: " \o e), raw |-> None])


-----------------------------------------------------------------------------
(* cli.main: one run of the command line, with solve_question *)

\* key in value, for the key "error"
PyIn(key, value) ==
    CASE value.t = "dict" -> Ok(key \in DOMAIN value.d)
      [] value.t = "list" -> Ok(\E i \in 1..Len(value.items) : value.items[i] = PyStr(key))
      [] value.t = "str" -> Ok(Contains(value.s, key))
      [] OTHER -> Raise("argument of type '" \o value.t \o "' is not iterable")

\* dict.get(key, default)
GetOr(dict, key, default) == IF key \in DOMAIN dict.d THEN dict.d[key] ELSE default

CliQuestions == { "What is 1/4 + 1/4?", "Solve 2x = 16" }

\* sys.argv
CliArgv ==
    { <<"cli.py">>, <<"cli.py", "--question">> }
    \cup { <<"cli.py", q>> : q \in CliQuestions }
    \cup { <<"cli.py", "--question", q>> : q \in CliQuestions }

\* well-formed structured blocks, and the prose around them
Blocks == { "{\"final_answer\": \"1/2\"}", "{\"final_answer\": \"8\"}" }
Before == { "", "Sure! ", "Use {x}: " }
After == { "", " Hope it helps", " or {\"final_answer\": \"8\"}", " (see {T})" }

ProseWithBlock ==
    { t \in Before \X Blocks \X After : t[1] # "" \/ t[3] # "" }

\* response.text of the model
ModelTexts ==
    { t[1] \o t[2] \o t[3] : t \in ProseWithBlock }
    \cup { "{\"final_answer\": \"1/2\", \"approach\": \"add the quarters\"}",
           "  {\"final_answer\": \"1/2\"}\n",
           "{\"final_answer\": \"2 +\", \"approach\": \"guess\"}",
           "{\"final_answer\": 5}",
           "{\"final_answer\": null, \"approach\": \"no closed form\"}",
           "{\"approach\": \"explanation only\"}",
           "{\"error\": \"no closed form\"}",
           "[1, 2]", "[\"error\"]", "\"error\"", "7", "null",
           "The answer is 1/2", " The answer is 1/2 \n",
           "{final_answer: 1/2}", "} 1/2 {", "{\"final_answer\": ", "" }

CliInit ==
    /\ NoSingle
    /\ parse_latex = FALSE
    /\ calls = <<>>
    /\ batch = <<>>
    /\ unit = <<>>
    /\ cli \in [argv : CliArgv, pc : {"main"}, question : {""}, content : {""},
                interpreted : {FALSE}, result : {NoResult},
                verification : {NoResult}, generated : {0}, exit : {<<>>}]

CliStep(next) ==
    /\ cli' = next
    /\ UNCHANGED <<single, parse_latex, calls, batch, unit>>

\* sys.exit(code); an uncaught exception ends the process with code 1
Exit(code) == [cli EXCEPT !.pc = "exited", !.exit = <<code>>]

\* lines 15-35
Main ==
    /\ cli.pc = "main"
    /\ CliStep(IF Len(cli.argv) < 2 THEN Exit(1)
               ELSE [cli EXCEPT !.pc = "solve",
                                !.question =
                                    IF cli.argv[2] = "--question" /\ Len(cli.argv) >= 3
                                    THEN cli.argv[3] ELSE cli.argv[2]])

\* solve_question, lines 78-82: the model answers
GenerateContentReturns ==
    /\ cli.pc = "solve"
    /\ \E text \in ModelTexts :
        CliStep([cli EXCEPT !.pc = "parse", !.content = Strip(text),
                            !.generated = @ + 1])

\* solve_question, lines 91-92: the call of the model fails
GenerateContentRaises ==
    /\ cli.pc = "solve"
    /\ \E e \in TransportErrors :
        CliStep([cli EXCEPT !.pc = "check", !.result = ApiError(e),
                            !.generated = @ + 1])

\* solve_question, lines 84-89
ParseContent ==
    /\ cli.pc = "parse"
    /\ CliStep([cli EXCEPT !.pc = "check", !.interpreted = TRUE,
                           !.result = ParseResponse(cli.content)])

\* cli.main, lines 40-46
CheckError ==
    /\ cli.pc = "check"
    /\ \E has \in {PyIn("error", cli.result)} :
        CliStep(IF ~has.ok THEN Exit(1)
                ELSE IF has.value
                THEN IF cli.result.t = "dict" THEN Exit(2) ELSE Exit(1)
                ELSE [cli EXCEPT !.pc = "display"])

\* cli.main, lines 49-137
Display ==
    /\ cli.pc = "display"
    /\ CliStep(IF cli.result.t # "dict" THEN Exit(1)
               ELSE [Exit(0) EXCEPT !.verification =
                        verify_mathematical_answer(
                            GetOr(cli.result, "final_answer", PyStr("<missing>")),
                            cli.question, parse_latex)])

CliNext ==
    \/ Main
    \/ GenerateContentReturns
    \/ GenerateContentRaises
    \/ ParseContent
    \/ CheckError
    \/ Display

CliSpec == CliInit /\ [][CliNext]_vars


-----------------------------------------------------------------------------
(* The claims on the interpretation of the model's text and the command line *)

\* the text was interpreted: cli.result is what solve_question made of it
Interpreted == cli.interpreted

\* C27: for every prose text holding a well-formed block, the interpretation
\* returns the fields of a strict parse of that block, also when the prose or
\* a second block has braces of its own.
C27_ProseBlockExtracted ==
    \A t \in ProseWithBlock :
        Interpreted /\ cli.content = Strip(t[1] \o t[2] \o t[3]) =>
            cli.result = json_loads(t[2]).value

HasBrace(text) == Contains(text, "{") \/ Contains(text, "}")

\* the block is extracted from a prose that has no braces
ProseWithoutBracesExtracted ==
    \A t \in ProseWithBlock :
        /\ Interpreted
        /\ cli.content = Strip(t[1] \o t[2] \o t[3])
        /\ ~HasBrace(t[1]) /\ ~HasBrace(t[3])
        => cli.result = json_loads(t[2]).value

\* neither the text nor its brace-bounded substring parses
BothParsesFail(text) ==
    /\ ~json_loads(text).ok
    /\ SearchBraces(text).ok => ~json_loads(SearchBraces(text).value).ok

\* C28: when the strict parse of the text and that of its brace-bounded
\* substring fail, or there is no brace pair, the result is the failure record
\* with the text unchanged as raw, the three placeholders and an error.
C28_FailureKeepsRawText ==
    Interpreted /\ BothParsesFail(cli.content) =>
        /\ cli.result.t = "dict"
        /\ DOMAIN cli.result.d =
            {"error", "raw", "final_answer", "approach", "critical_thinking"}
        /\ cli.result.d.raw = PyStr(cli.content)
        /\ cli.result.d.error = PyStr("Failed to parse JSON")
        /\ cli.result.d.final_answer = PyStr("Parse error - see raw output")
        /\ cli.result.d.approach = PyStr("Could not extract structured response")
        /\ cli.result.d.critical_thinking = PyStr("LLM returned malformed JSON")

\* C28 witness: a text with a brace pair around no well-formed block was
\* interpreted as the failure record
C28_Witness ==
    /\ Interpreted
    /\ cli.content = "Use {x}: {\"final_answer\": \"1/2\"} (see {T})"
    /\ cli.result.d.raw = PyStr(cli.content)

\* a text without a brace pair was interpreted as the failure record
NoBracePairFails ==
    /\ Interpreted
    /\ cli.content = "} 1/2 {"
    /\ cli.result = ParseFailure("} 1/2 {")

Exited == cli.pc = "exited"
ExitCode == cli.exit[1]
NoArgument == Len(cli.argv) < 2

\* the result of solve_question carries an error
CarriesError == cli.result.t = "dict" /\ "error" \in DOMAIN cli.result.d

\* C29: the command line ends with code 0, 1 or 2: 1 exactly when no problem
\* is given, and then without a call of the model; 2 exactly when the result
\* carries an error; 0 otherwise.
C29_ExitCodes ==
    Exited =>
        /\ ExitCode \in {0, 1, 2}
        /\ ExitCode = 1 <=> NoArgument
        /\ ExitCode = 1 => cli.generated = 0
        /\ ExitCode = 2 <=> ~NoArgument /\ CarriesError
        /\ ExitCode = 0 <=> ~NoArgument /\ ~CarriesError

\* the exit codes are as claimed when the model's text is an object or is not
\* JSON at all
ExitCodesForObjects ==
    Exited /\ cli.result.t = "dict" =>
        /\ ExitCode \in {0, 1, 2}
        /\ ExitCode = 1 <=> NoArgument
        /\ ExitCode = 1 => cli.generated = 0
        /\ ExitCode = 2 <=> ~NoArgument /\ CarriesError
        /\ ExitCode = 0 <=> ~NoArgument /\ ~CarriesError

\* a result that is no object ends the command line with code 1
ExitOneForNonObjects ==
    Exited /\ cli.result.t # "dict" => ExitCode = 1 /\ ~NoArgument


\* the interpretation of solve_question accepts the text as an object
InterpreterAccepts(text) ==
    /\ ParseResponse(text) # ParseFailure(text)
    /\ ParseResponse(text).t = "dict"

\* solve treated the response of round i as an interpretation failure: it
\* returned the llm_parse_error result or appended the JSON correction
TreatedAsFailure(i) ==
    IF ReturnedIn(i) THEN result.d.method = PyStr("llm_parse_error")
    ELSE Contains(Appended(i), "Your previous response was not valid JSON")

\* C30: a response that the interpretation of solve_question accepts, by strict
\* parse or by isolating a block in prose, is not treated by solve as an
\* interpretation failure.
C30_InterpretsAsInterpreter ==
    \A i \in Rounds :
        /\ Handled(i)
        /\ ~received[i].raised
        /\ InterpreterAccepts(received[i].text)
        => ~TreatedAsFailure(i)

\* a response that parses strictly as an object is not treated as a failure
StrictObjectIsCandidate ==
    \A i \in Rounds :
        Handled(i) /\ IsCandidate(i) => ~TreatedAsFailure(i)


-----------------------------------------------------------------------------
(* The shape of the record that solve_question returns *)

\* a mapping of named fields
IsRecord(value) == value.t = "dict"

\* the text is JSON, but no object: a list, a number, a string or null
IsJsonNonObject(text) == json_loads(text).ok /\ ~IsRecord(json_loads(text).value)

\* C31: for every text of the model, the interpretation of solve_question is a
\* mapping of named fields, the strictly parsed object or the failure record,
\* never a bare scalar, a list or null.
C31_InterpretationIsRecord ==
    Interpreted =>
        /\ IsRecord(cli.result)
        /\ \/ cli.result = ParseFailure(cli.content)
           \/ json_loads(cli.content) = Ok(cli.result)
           \/ /\ SearchBraces(cli.content).ok
              /\ json_loads(SearchBraces(cli.content).value) = Ok(cli.result)

\* the interpretation is such a mapping for every text that is not JSON of
\* another kind than an object
RecordUnlessJsonNonObject ==
    Interpreted /\ ~IsJsonNonObject(cli.content) =>
        /\ IsRecord(cli.result)
        /\ \/ cli.result = ParseFailure(cli.content)
           \/ json_loads(cli.content) = Ok(cli.result)
           \/ /\ SearchBraces(cli.content).ok
              /\ json_loads(SearchBraces(cli.content).value) = Ok(cli.result)

\* a text that is JSON of another kind is returned as that value
JsonNonObjectReturnedAsIs ==
    Interpreted /\ IsJsonNonObject(cli.content) =>
        cli.result = json_loads(cli.content).value /\ ~IsRecord(cli.result)

\* the list "[1, 2]" was returned by solve_question
ListReturned ==
    Interpreted /\ cli.content = "[1, 2]" /\ cli.result.t = "list"


-----------------------------------------------------------------------------
(* The claims on _parse: the order of its checks and of its engine calls *)

ParseCalled == unit.fn = "_parse"
ParseDone == ParseCalled /\ unit.pc = "done"
ParseText == unit.args[1]
ParseOut == unit.outs[1]

\* the calls of the engine made so far, and those of one parser
EngineCalls == unit.engine
CallsOf(parser) == SelectSeq(EngineCalls, LAMBDA c : c.parser = parser)

\* the text is empty or whitespace-only once trimmed and taken out of a pair
\* of math-mode delimiters
BlankInsideDelimiters(text) == IsBlank(StripDollars(Strip(text)))

\* C32: _parse hands no empty or whitespace-only text to the engine: every
\* text that is blank, also one made of the math-mode delimiters only, is
\* rejected with 'empty expression' before any engine call.
C32_NoBlankTextToEngine ==
    ParseCalled =>
        /\ \A k \in 1..Len(EngineCalls) : ~IsBlank(EngineCalls[k].text)
        /\ ParseDone /\ BlankInsideDelimiters(ParseText) =>
            ParseOut = Raise("empty expression") /\ EngineCalls = <<>>

\* an empty or whitespace-only argument is rejected before any engine call
BlankArgumentRejectedFirst ==
    ParseDone /\ IsBlank(ParseText) =>
        ParseOut = Raise("empty expression") /\ EngineCalls = <<>>

\* the rejection is made for a blank argument only, and then nothing is called
EmptyExpressionIffBlankArgument ==
    ParseDone =>
        /\ ParseOut = Raise("empty expression") <=> IsBlank(ParseText)
        /\ EngineCalls = <<>> <=> IsBlank(ParseText)

\* the delimiters alone: the generic parser was called on the empty text
DelimitersOnlyReachEngine ==
    /\ ParseDone
    /\ ParseText = "$$"
    /\ EngineCalls = <<EngineCall("sympify", "", sympify(""))>>
    /\ ParseOut # Raise("empty expression")

\* the calls made one at a time return what _parse returns in one step, with
\* the markup parser working or failing on every text
StepsAgreeWithParse ==
    ParseDone =>
        /\ ParseOut \in {_parse(ParseText, parse_latex), _parse(ParseText, FALSE)}
        /\ CallsOf("parse_latex") = <<>> => ParseOut = _parse(ParseText, FALSE)


\* what line 47 tests: the text, trimmed and out of its delimiters, has one of
\* the markers, and the markup parser is available
DetectedAsMarkup ==
    parse_latex /\ _looks_like_latex(StripDollars(Strip(ParseText)))

MarkupFailed ==
    /\ Len(EngineCalls) >= 1
    /\ EngineCalls[1].parser = "parse_latex"
    /\ ~EngineCalls[1].out.ok

\* C33: on a text detected as markup, with the markup parser available, the
\* markup parser is called first and the generic parser only after it failed;
\* then the outcome of _parse is the generic parser's, and not the markup
\* parser's error. On any other text the markup parser is not called.
C33_MarkupFirstThenGeneric ==
    ParseCalled =>
        /\ \A k \in 1..Len(EngineCalls) :
            /\ EngineCalls[k].text = StripDollars(Strip(ParseText))
            /\ EngineCalls[k].parser = "parse_latex" => k = 1 /\ DetectedAsMarkup
            /\ EngineCalls[k].parser = "sympify" =>
                /\ k = Len(EngineCalls)
                /\ IF DetectedAsMarkup THEN k = 2 /\ MarkupFailed ELSE k = 1
                /\ EngineCalls[k].out = sympify(EngineCalls[k].text)
        /\ ParseDone /\ ~IsBlank(ParseText) =>
            /\ EngineCalls # <<>>
            /\ ParseOut = EngineCalls[Len(EngineCalls)].out
            /\ DetectedAsMarkup => EngineCalls[1].parser = "parse_latex"
            /\ ~DetectedAsMarkup => CallsOf("parse_latex") = <<>>
            /\ MarkupFailed =>
                /\ ParseOut = sympify(StripDollars(Strip(ParseText)))
                /\ ParseOut # EngineCalls[1].out

\* C33 witness: the markup parser failed on a text with a marker, and _parse
\* returned the expression of the generic parser
C33_Witness ==
    /\ ParseDone
    /\ ParseText = "Symbol('^{')"
    /\ MarkupFailed
    /\ Len(EngineCalls) = 2
    /\ ParseOut = Ok(Expr("^{", False, None))

\* both parsers failed: the error of _parse is the generic parser's
GenericErrorPropagated ==
    /\ ParseDone
    /\ ParseText = "\\frac{1}{"
    /\ MarkupFailed
    /\ ~ParseOut.ok
    /\ ParseOut = sympify("\\frac{1}{")

\* the markup parser succeeded: the generic parser was not called
MarkupAlone ==
    /\ ParseDone
    /\ ParseText = "$\\frac{1}{2}$"
    /\ EngineCalls = <<EngineCall("parse_latex", "\\frac{1}{2}", Ok(Expr("1/2", True, True)))>>
    /\ ParseOut = Ok(Expr("1/2", True, True))

\* a text in math-mode delimiters without a marker goes to the generic parser
\* only, the markup parser being available
DelimitedTextNotDetected ==
    /\ ParseDone
    /\ parse_latex
    /\ ParseText = "$x$"
    /\ EngineCalls = <<EngineCall("sympify", "x", Ok(Expr("x", False, None)))>>


-----------------------------------------------------------------------------
(* The claims on what a round of solve keeps of the rounds before it *)

Done == pc = "done"
WithVerdict == Done /\ result.d.method = PyStr("llm_with_verification")

\* the transport calls performed in the invocation
TransportCalls == Len(received)

\* the fields that solve writes into the candidate (lines 65, 66, 70)
AttachedFields == {"verification", "verification_round", "method"}

\* C34: a result with method llm_with_verification is the candidate of the
\* most recent transport call with the verdict on that candidate's answer:
\* verification_round is the number of transport calls, between 1 and
\* max_rounds, and nothing of an earlier round is in it.
C34_ResultIsOfLastRound ==
    WithVerdict =>
        /\ TransportCalls \in 1..max_rounds
        /\ result.d.verification_round = PyInt(IntToStr(TransportCalls))
        /\ RanVerification(TransportCalls)
        /\ result.d.verification = Verdict(TransportCalls)
        /\ DOMAIN result.d = DOMAIN Candidate(TransportCalls).d \cup AttachedFields
        /\ \A k \in DOMAIN Candidate(TransportCalls).d \ AttachedFields :
            result.d[k] = Candidate(TransportCalls).d[k]

\* C34 witness: the first round's candidate, with an approach field, was
\* rejected; the second round's candidate, without one, was returned
C34_Witness ==
    /\ WithVerdict
    /\ TransportCalls = 2
    /\ received[1].text = "{\"final_answer\": \"2 +\", \"approach\": \"guess\"}"
    /\ received[2].text = "{\"final_answer\": \"\\\\frac{1}{2}\"}"
    /\ DOMAIN result.d = {"final_answer"} \cup AttachedFields
    /\ result.d.verification_round = PyInt("2")

\* a verdict that is not valid was returned in the last round, after a
\* rejected round with a different verdict
UnverifiedLastRoundIsOwnVerdict ==
    /\ WithVerdict
    /\ TransportCalls = 2
    /\ max_rounds = 2
    /\ received[1].text = "{\"final_answer\": \"\\\\frac{1}{2}\"}"
    /\ received[2].text = "{\"final_answer\": \"2 +\", \"approach\": \"guess\"}"
    /\ ~Valid(2)
    /\ result.d.verification = Verdict(2)
    /\ Verdict(1) # Verdict(2)


\* the message that the rejected round i leaves in the conversation: the
\* request for valid JSON, or the correction request with the answer and the
\* verifier's error
RejectionMessage(i) ==
    [role |-> "user",
     content |-> IF Unparseable(i) THEN json_fix_prompt
                 ELSE correction_prompt(Answer(i), Verdict(i).d.error)]

\* C35: the conversation handed to the k-th transport call has k + 1
\* messages: the system message, the user prompt and one user message per
\* earlier, rejected round; no response of the model is a message of it; no
\* message is appended in the last permitted round, so the conversation has
\* at most max_rounds + 1 messages.
C35_ConversationOfKthCall ==
    /\ \A k \in 1..Len(sent) :
        /\ Len(sent[k]) = k + 1
        /\ sent[k][1] = [role |-> "system", content |-> get_system_prompt(structured)]
        /\ sent[k][2] = [role |-> "user", content |-> format_user_prompt(problem)]
        /\ \A i \in 1..(k - 1) : sent[k][i + 2] = RejectionMessage(i)
        /\ \A j \in 1..Len(sent[k]) :
            /\ sent[k][j].role \in {"system", "user"}
            /\ \A i \in 1..(k - 1) : sent[k][j].content # received[i].text
    /\ Len(sent) >= 1 =>
        /\ Len(messages) <= max_rounds + 1
        /\ Len(sent) = max_rounds \/ Done => messages = sent[Len(sent)]

\* C35 witness: the third call, after an unparseable round and a round whose
\* answer was not verified, was handed four messages, and the last permitted
\* round returned without adding one
C35_Witness ==
    /\ Done
    /\ max_rounds = 3
    /\ Len(sent) = 3
    /\ Unparseable(1)
    /\ RanVerification(2) /\ ~Valid(2)
    /\ RanVerification(3) /\ ~Valid(3)
    /\ Len(sent[3]) = 4
    /\ Len(messages) = 4


-----------------------------------------------------------------------------
(* The claims on the ways out of the loop of solve *)

\* solve went past the fixture and built its conversation (lines 43-50)
ReachedLoop == client

PostLoopResult == result.d.method = PyStr("llm_max_rounds_exceeded")

\* the result is one of the three that a return statement inside the loop
\* makes (lines 71, 86, 91)
ReturnedFromRound ==
    result.d.method \in {PyStr("llm_with_verification"),
                         PyStr("llm_no_verification"),
                         PyStr("llm_parse_error")}

NoTransportFailure == \A i \in Rounds : ~received[i].raised

\* C36: the post-loop result is produced exactly when max_rounds <= 0, and
\* then without a transport call; for max_rounds >= 1 solve returns from
\* inside a round whenever no transport call fails.
C36_PostLoopIffNoRounds ==
    Done /\ ReachedLoop =>
        /\ PostLoopResult <=> max_rounds <= 0
        /\ max_rounds <= 0 => Len(sent) = 0
        /\ max_rounds >= 1 /\ NoTransportFailure => ReturnedFromRound

\* the post-loop result is produced exactly when max_rounds <= 0, and then
\* without a transport call
PostLoopExactlyWithoutRounds ==
    Done /\ ReachedLoop =>
        /\ PostLoopResult <=> max_rounds <= 0
        /\ PostLoopResult => Len(sent) = 0

\* for max_rounds >= 1 solve returns from inside a round when every response
\* is an object or is not JSON
RoundReturnsUnlessNonObject ==
    /\ Done /\ ReachedLoop
    /\ max_rounds >= 1
    /\ \A i \in Rounds : IsCandidate(i) \/ Unparseable(i)
    => ReturnedFromRound /\ Len(sent) \in 1..max_rounds

\* a response that is JSON but no object left the loop by an exception, no
\* transport call having failed
LoopLeftByException ==
    /\ Done
    /\ max_rounds >= 1
    /\ NoTransportFailure
    /\ Len(received) >= 1
    /\ received[Len(received)].text = "[1, 2]"
    /\ result.d.method = PyStr("error_fallback")

\* max_rounds = 0: the post-loop result without a call
PostLoopReached ==
    Done /\ ReachedLoop /\ max_rounds = 0 /\ PostLoopResult /\ sent = <<>>


-----------------------------------------------------------------------------
(* verify_mathematical_answer and its context: the verifier called twice on *)
(* one answer, or called by solve with the problem as context               *)

VerdictInit == Init \/ VerifierInit

\* pc is "unused" when a function of cas_verifier is called on its own
VerdictNext ==
    \/ Next
    \/ pc = "unused" /\ VerifierNext

VerdictSpec == VerdictInit /\ [][VerdictNext]_vars

\* verify_mathematical_answer was called on its own, k times or more
VerifiedAlone(k) ==
    /\ pc = "unused"
    /\ unit.fn = "verify_mathematical_answer"
    /\ Len(unit.outs) >= k

\* the answer is a text that, once normalized, parses (and simplifies) without
\* an error
ParsesAfterNormalizing(answer) ==
    /\ answer.t = "str"
    /\ _parse(clean_expression(answer.s), parse_latex).ok

\* C37: the verdict depends on the answer only: two calls on one answer give
\* the same verdict whatever their contexts; is_valid is true exactly when the
\* normalized answer parses; and solve accepts as verified, in its round, a
\* candidate whose answer parses, whatever the problem.
C37_VerdictIgnoresProblem ==
    /\ VerifiedAlone(2) => unit.outs[1] = unit.outs[2]
    /\ VerifiedAlone(1) =>
        \A k \in 1..Len(unit.outs) :
            unit.outs[k].d.is_valid = True <=> ParsesAfterNormalizing(unit.args[1])
    /\ \A i \in Rounds :
        Handled(i) /\ HasAnswerField(i) /\ ParsesAfterNormalizing(Answer(i)) =>
            /\ Valid(i)
            /\ AcceptedIn(i)
            /\ result.d.method = PyStr("llm_with_verification")
            /\ result.d.verification.d.is_valid = True

\* C37 witness: the answer '1/2' was given the same valid verdict with the
\* problem it answers and with a problem it does not answer as context
C37_Witness ==
    /\ VerifiedAlone(2)
    /\ unit.args = <<PyStr("1/2"), "What is 1/4 + 1/4?",
                     "Find T: F(x)+F(x+T)=F(x+2)+F(x+T+6)">>
    /\ unit.outs[1] = unit.outs[2]
    /\ unit.outs[1].d.is_valid = True

\* solve returned the answer '8' to 'What is 1/4 + 1/4?' as verified, in the
\* first of three rounds
WrongAnswerAcceptedAsVerified ==
    /\ Done
    /\ problem = "What is 1/4 + 1/4?"
    /\ max_rounds = 3
    /\ TransportCalls = 1
    /\ received[1].text = "{\"final_answer\": \"8\"}"
    /\ result.d.method = PyStr("llm_with_verification")
    /\ result.d.verification.d.is_valid = True
    /\ result.d.verification.d.simplified_answer = PyStr("8")

\* an answer that does not parse was given the same invalid verdict with two
\* different contexts
InvalidWhateverTheContext ==
    /\ VerifiedAlone(2)
    /\ unit.args[1] = PyStr("2 +")
    /\ unit.args[2] # unit.args[3]
    /\ unit.outs[1] = unit.outs[2]
    /\ unit.outs[1].d.is_valid = False

====
